---- MODULE Spec2Model ----
(***************************************************************************)
(* Model of the advertising dashboard's data pipeline: the metrics         *)
(* calculator, the date / period engine, the date-range filter             *)
(* (utils/dataProcessor), the data context (context/DataContext.tsx) and   *)
(* the period comparison table of the trends view.                         *)
(*                                                                         *)
(* Conventions                                                             *)
(*  - A JavaScript Date is an integer: the local wall-clock time in hours  *)
(*    since 1970-01-01T00:00 local.  The time zone is a fixed UTC offset   *)
(*    tz (hours, local = UTC + tz); daylight saving shifts are not         *)
(*    modelled.                                                            *)
(*  - A JavaScript string is a sequence of one-character strings.          *)
(*  - A JavaScript number that is a quotient is an exact fraction <<n, d>> *)
(*    in lowest terms with d > 0 (floating point rounding is not           *)
(*    modelled); raw counters are natural numbers.                         *)
(***************************************************************************)
EXTENDS Integers, Sequences, FiniteSets, TLC

VARIABLES
  tz,                 \* UTC offset of the environment's time zone, in hours
  \* --- arguments and results of the date / period engine -------------
  date,               \* a row's processedDate
  timeUnit,           \* DataContext: granularity
  isoWeek,            \* result of getISOWeek(date)
  periodKey,          \* generateTrendData: periodKey of date
  previousPeriodKey,  \* generateComparisonTable: previousPeriodKey of periodKey
  \* --- arguments and results of the pure pipeline functions -----------
  data,               \* the AdData[] argument
  dateRange,          \* DataContext: { startDate, endDate }
  metricRows,         \* result of calculateMetrics(data)
  summary,            \* result of calculateKpiSummary(data)
  trend,              \* result of generateTrendData(data, timeUnit)
  ranged,             \* result of filterByDateRange(data, dateRange)
  called,             \* which function has been applied ("" = none yet)
  \* --- DataProvider state and the TrendsDashboard render --------------
  sheet,              \* the mapped rows the published sheet yields when fetched
  rawData,            \* DataContext: rawData
  selectedFilters,    \* DataContext: selectedFilters
  processedData,      \* DataContext: processedData
  kpiSummary,         \* DataContext: kpiSummary (<<>> = null)
  trendData,          \* DataContext: trendData
  completeTrendData,  \* DataContext: completeTrendData
  tableMetric,        \* TrendsDashboard: tableMetric
  comparisonTable,    \* TrendsDashboard: comparisonTable of the last render
  \* --- arguments and results of the filter and of the sheet mapping ----
  selection,          \* the filters handed to filterData
  filteredRows,       \* result of filterData(data, selection)
  dataSource,         \* the DataSourceType handed to parseDate and the sheet mapping
  lenientEngine,      \* whether the engine's Date parser accepts out-of-range days
  dateString,         \* the string handed to parseDate
  parsedDate,         \* result of parseDate(dateString, dataSource)
  sourceRows,         \* the parsed CSV rows handed to processGoogleSheetData
  mappedRows,         \* result of processGoogleSheetData(sourceRows, dataSource)
  recalculated,       \* result of calculateMetrics applied to its own result
  \* --- DataProvider: the data source and its fetches -------------------
  activeDataSource,   \* DataContext: activeDataSource
  loading,            \* DataContext: loading
  error,              \* DataContext: error (<<>> = null)
  filterOptions,      \* DataContext: filterOptions
  compareBy,          \* DataContext: compareBy
  comparisonData,     \* DataContext: comparisonData
  fetches,            \* the calls of fetchData in the order they started
  \* --- arguments and results of the number parsers and of the grouping --
  numericText,        \* the string handed to parseNumericValue and parsePercentage
  numericValue,       \* result of parseNumericValue(numericText)
  percentage,         \* result of parsePercentage(numericText)
  dimension,          \* the compareBy handed to generateComparisonData
  comparison          \* result of generateComparisonData(metricRows, dimension)

periodVars == <<date, isoWeek, periodKey, previousPeriodKey>>
pipeVars == <<data, metricRows, summary, trend, ranged, called>>
ctxVars == <<sheet, rawData, selectedFilters, processedData, kpiSummary, trendData, completeTrendData,
             tableMetric, comparisonTable>>
parseVars == <<dataSource, lenientEngine, dateString, parsedDate>>
sheetVars == <<sourceRows, mappedRows>>
fnVars == <<selection, filteredRows, parseVars, sheetVars, recalculated>>
providerVars == <<activeDataSource, loading, error, filterOptions, compareBy, comparisonData, fetches>>
auxVars == <<numericText, numericValue, percentage, dimension, comparison>>
vars == <<tz, timeUnit, dateRange, periodVars, pipeVars, ctxVars, fnVars, providerVars, auxVars>>

-----------------------------------------------------------------------------
(* Bounds *)

NumYears == 5
MaxRows == 2
MaxCount == 1

Years == 2020 .. (2019 + NumYears)

TimeZones == {-5, 0, 1}

TimeUnits == {"Day", "Week", "Month", "Quarter", "Year"}

-----------------------------------------------------------------------------
(* JavaScript Date: proleptic Gregorian calendar on day numbers            *)

\* days since 1970-01-01 of the civil date y-m-d (m in 1..12; d may overflow)
DaysFromShifted(yy, mp, d) ==
  (yy \div 400) * 146097
    + (yy % 400) * 365 + (yy % 400) \div 4 - (yy % 400) \div 100
    + (153 * mp + 2) \div 5 - 719468 + (d - 1)

DaysFromCivil(y, m, d) ==
  DaysFromShifted(IF m <= 2 THEN y - 1 ELSE y, IF m > 2 THEN m - 3 ELSE m + 9, d)

\* civil date of a day number: era, day of era, year of era, day of year
\* (years starting in March), month index from March
CivilFromMp(y, doy, mp) ==
  [y |-> (IF mp < 10 THEN y ELSE y + 1),
   m |-> (IF mp < 10 THEN mp + 3 ELSE mp - 9),
   d |-> doy - (153 * mp + 2) \div 5 + 1]

CivilFromDoy(y, doy) == CivilFromMp(y, doy, (5 * doy + 2) \div 153)

CivilFromYoe(era, doe, yoe) ==
  CivilFromDoy(yoe + era * 400, doe - (365 * yoe + yoe \div 4 - yoe \div 100))

CivilFromDoe(era, doe) ==
  CivilFromYoe(era, doe, (doe - doe \div 1460 + doe \div 36524 - doe \div 146096) \div 365)

CivilFromDays(z) == CivilFromDoe((z + 719468) \div 146097, (z + 719468) % 146097)

\* new Date(year, monthIndex, day): local midnight
NewDateLocal(year, monthIndex, day) == DaysFromCivil(year, monthIndex + 1, day) * 24

\* new Date("YYYY-MM-DD") of the civil date y-m-d: UTC midnight, seen in local time
NewDateUTC(y, m, d, zone) == DaysFromCivil(y, m, d) * 24 + zone

getFullYear(t) == CivilFromDays(t \div 24).y
getMonth(t)    == CivilFromDays(t \div 24).m - 1
getDate(t)     == CivilFromDays(t \div 24).d
getDay(t)      == ((t \div 24) + 4) % 7          \* 0 = Sunday
getHours(t)    == t % 24

\* date.setDate(n): day n of the date's month, same time of day
setDate(t, n) == DaysFromCivil(getFullYear(t), getMonth(t) + 1, n) * 24 + getHours(t)

\* date.setFullYear(y): same month, day and time of day (29 Feb rolls over)
setFullYear(t, y) == DaysFromCivil(y, getMonth(t) + 1, getDate(t)) * 24 + getHours(t)

\* Math.ceil(a / b) for b > 0
CeilDiv(a, b) == -((-a) \div b)

-----------------------------------------------------------------------------
(* JavaScript strings                                                      *)

DigitChar == <<"0", "1", "2", "3", "4", "5", "6", "7", "8", "9">>

IsDigit(c) == \E i \in 1..10 : DigitChar[i] = c
DigitVal(c) == (CHOOSE i \in 1..10 : DigitChar[i] = c) - 1

\* Number.prototype.toString / template literal of a non-negative integer
RECURSIVE NumToString(_)
NumToString(n) ==
  IF n < 10 THEN <<DigitChar[n + 1]>>
  ELSE NumToString(n \div 10) \o <<DigitChar[(n % 10) + 1]>>

\* s.padStart(2, '0')
PadStart2(s) == IF Len(s) >= 2 THEN s ELSE <<"0">> \o s

\* s.split('-')
RECURSIVE SplitDash(_)
SplitDash(s) ==
  IF \A i \in 1..Len(s) : s[i] # "-" THEN <<s>>
  ELSE LET k == CHOOSE i \in 1..Len(s) : s[i] = "-" /\ \A j \in 1..(i-1) : s[j] # "-"
       IN  <<SubSeq(s, 1, k - 1)>> \o SplitDash(SubSeq(s, k + 1, Len(s)))

NaN == -1

\* parseInt(s) for an unsigned string: the value of the leading digits, NaN if none
RECURSIVE DigitsValue(_, _)
DigitsValue(s, acc) ==
  IF s = <<>> \/ ~IsDigit(Head(s)) THEN acc
  ELSE DigitsValue(Tail(s), acc * 10 + DigitVal(Head(s)))

\* (leading blanks are skipped)
RECURSIVE SkipBlanks(_)
SkipBlanks(s) == IF s # <<>> /\ Head(s) = " " THEN SkipBlanks(Tail(s)) ELSE s

parseInt(s) ==
  IF SkipBlanks(s) = <<>> \/ ~IsDigit(Head(SkipBlanks(s))) THEN NaN ELSE DigitsValue(SkipBlanks(s), 0)

\* s.substring(1)
Substring1(s) == IF s = <<>> THEN <<>> ELSE Tail(s)

-----------------------------------------------------------------------------
(* utils/dataProcessor: getISOWeek                                         *)

NoWeek == [year |-> 0, week |-> 0]

RECURSIVE getISOWeek(_)

\* the three year-boundary branches and the result, given the year of the
\* week's Thursday, the rounded-up week number and that of 31 December
ISOWeekRecord(dt, isoYear, weekNumber, dec31Week) ==
  IF weekNumber > 52 /\ dec31Week < 53
    THEN [year |-> isoYear + 1, week |-> 1]
  ELSE IF weekNumber = 0
    THEN [year |-> isoYear - 1,
          week |-> getISOWeek(NewDateLocal(isoYear - 1, 11, 31)).week]
  ELSE IF getMonth(dt) < 3 /\ isoYear > getFullYear(dt)
    THEN [year |-> getFullYear(dt), week |-> weekNumber]
  ELSE [year |-> isoYear, week |-> weekNumber]

\* Math.ceil((((target - firstDayOfYear) / 86400000) + 1) / 7), times in hours
WeekNumber(target, firstDayOfYear) == CeilDiv((target - firstDayOfYear) + 24, 168)

ISOWeekOfTarget(dt, target, firstDayOfYear) ==
  ISOWeekRecord(dt, getFullYear(target), WeekNumber(target, firstDayOfYear),
                WeekNumber(NewDateLocal(getFullYear(target), 11, 31), firstDayOfYear))

TargetThursday(dt, dayOfWeek) == setDate(dt, getDate(dt) + (4 - dayOfWeek))

FirstDayOfYear(target) == NewDateLocal(getFullYear(target), 0, 1)

ISOWeekOfThursday(dt, target) == ISOWeekOfTarget(dt, target, FirstDayOfYear(target))

getISOWeek(dt) ==
  ISOWeekOfThursday(dt, TargetThursday(dt, IF getDay(dt) = 0 THEN 7 ELSE getDay(dt)))

-----------------------------------------------------------------------------
(* utils/dataProcessor: generateTrendData, the period key of a row         *)

Dash == <<"-">>

PeriodKey(dt, unit) ==
  IF unit = "Day" THEN
    NumToString(getFullYear(dt)) \o Dash \o PadStart2(NumToString(getMonth(dt) + 1))
      \o Dash \o PadStart2(NumToString(getDate(dt)))
  ELSE IF unit = "Week" THEN
    NumToString(getISOWeek(dt).year) \o Dash \o NumToString(getISOWeek(dt).week)
  ELSE IF unit = "Month" THEN
    NumToString(getFullYear(dt)) \o Dash \o NumToString(getMonth(dt) + 1)
  ELSE IF unit = "Quarter" THEN
    NumToString(getFullYear(dt)) \o Dash \o <<"Q">> \o NumToString((getMonth(dt) \div 3) + 1)
  ELSE NumToString(getFullYear(dt))

-----------------------------------------------------------------------------
(* components/dashboard/TrendsDashboard: predecessor key                   *)

\* new Date(s) for s = "YYYY-MM-DD" (date-only ISO form: UTC midnight)
DateParseISO(s, zone) ==
  LET p == SplitDash(s)
  IN  NewDateUTC(parseInt(p[1]), parseInt(p[2]), parseInt(p[3]), zone)

\* `${year}-${month}-${day}` with month and day padded to two digits
FormatYMD(t) ==
  NumToString(getFullYear(t)) \o Dash \o PadStart2(NumToString(getMonth(t) + 1))
    \o Dash \o PadStart2(NumToString(getDate(t)))

getLastISOWeekOfYear(year) ==
  LET lastDay == NewDateLocal(year, 11, 31)
      w       == getISOWeek(lastDay)
  IN  IF w.year > year THEN getISOWeek(NewDateLocal(year, 11, 24)).week ELSE w.week

PreviousPeriodKey(period, unit, zone) ==
  LET currentPeriodParts == SplitDash(period)
      currentYear        == parseInt(currentPeriodParts[1])
      currentSubPeriod   == IF Len(currentPeriodParts) > 1 THEN currentPeriodParts[2] ELSE <<>>
  IN  IF unit = "Day" THEN
        LET currentDate  == DateParseISO(period, zone)
            previousDate == setDate(currentDate, getDate(currentDate) - 1)
        IN  FormatYMD(previousDate)
      ELSE IF unit = "Week" THEN
        LET currentWeek == parseInt(currentSubPeriod)
        IN  IF currentWeek > 1
              THEN NumToString(currentYear) \o Dash \o NumToString(currentWeek - 1)
              ELSE NumToString(currentYear - 1) \o Dash
                     \o NumToString(getLastISOWeekOfYear(currentYear - 1))
      ELSE IF unit = "Month" THEN
        LET currentMonth == parseInt(currentSubPeriod)
        IN  IF currentMonth > 1
              THEN NumToString(currentYear) \o Dash \o NumToString(currentMonth - 1)
              ELSE NumToString(currentYear - 1) \o Dash \o <<"1", "2">>
      ELSE IF unit = "Quarter" THEN
        IF currentSubPeriod # <<>> /\ Head(currentSubPeriod) = "Q" THEN
          LET currentQuarter == parseInt(Substring1(currentSubPeriod))
          IN  IF currentQuarter > 1
                THEN NumToString(currentYear) \o Dash \o <<"Q">> \o NumToString(currentQuarter - 1)
                ELSE NumToString(currentYear - 1) \o Dash \o <<"Q", "4">>
        ELSE <<>>
      ELSE NumToString(currentYear - 1)

-----------------------------------------------------------------------------
(* JavaScript numbers: exact fractions                                     *)

Abs(x) == IF x < 0 THEN -x ELSE x

RECURSIVE GCD(_, _)
GCD(a, b) == IF b = 0 THEN a ELSE GCD(b, a % b)

\* n / d for d # 0, in lowest terms with a positive denominator
Frac(n, d) ==
  LET g == GCD(Abs(n), Abs(d))
      sg == IF d < 0 THEN -1 ELSE 1
  IN  <<(sg * n) \div g, (sg * d) \div g>>

Zero == <<0, 1>>
Num(n) == <<n, 1>>

\* a value that is not a finite number: x / 0 (NaN or Infinity), or an absent field
NotANumber == <<0, 0>>

FracSub(a, b) == Frac(a[1] * b[2] - b[1] * a[2], a[2] * b[2])
FracDiv(a, b) == IF b[1] = 0 THEN NotANumber ELSE Frac(a[1] * b[2], a[2] * b[1])
FracTimes(a, k) == Frac(a[1] * k, a[2])

\* Number.prototype.toString(): the string that spells the number x
NumberText(x) == [text |-> x]

-----------------------------------------------------------------------------
(* types/data: AdData rows.  The counter fields hold the number that       *)
(* parseNumericValue reads from the cell; processedDate is NoDate when the *)
(* row has none (its Date field does not parse).                          *)

NoDate == -1

AdRow(account, language, campaignType, domain, pd, impr, clicks, cost, conv, rev) ==
  [Account |-> account, Language |-> language, CampaignType |-> campaignType,
   Domain |-> domain, processedDate |-> pd,
   Impr |-> impr, Clicks |-> clicks, Cost |-> cost, Conversions |-> conv, Revenue |-> rev,
   CTR |-> NotANumber, CPC |-> NotANumber, CPA |-> NotANumber, ConvRate |-> NotANumber,
   ROAS |-> NotANumber, Profit |-> NumberText(NotANumber), CLV |-> NumberText(NotANumber)]

-----------------------------------------------------------------------------
(* utils/dataProcessor: calculateMetrics                                   *)

\* the same without the zero-denominator guards
calculateMetricsRow_Unguarded(row) ==
  [row EXCEPT !.CTR = FracDiv(Num(row.Clicks), Num(row.Impr)),
              !.CPC = FracDiv(Num(row.Cost), Num(row.Clicks)),
              !.CPA = FracDiv(Num(row.Cost), Num(row.Conversions)),
              !.ConvRate = FracDiv(Num(row.Conversions), Num(row.Clicks)),
              !.ROAS = FracDiv(Num(row.Revenue), Num(row.Cost)),
              !.Profit = NumberText(Num(row.Revenue - row.Cost)),
              !.CLV = NumberText(FracDiv(Num(row.Revenue), Num(row.Conversions)))]

\* the same with the profit stored in the Revenue field
calculateMetricsRow_ProfitAsRevenue(row) ==
  [row EXCEPT !.CTR = IF row.Impr > 0 THEN Frac(row.Clicks, row.Impr) ELSE Zero,
              !.CPC = IF row.Clicks > 0 THEN Frac(row.Cost, row.Clicks) ELSE Zero,
              !.CPA = IF row.Conversions > 0 THEN Frac(row.Cost, row.Conversions) ELSE Zero,
              !.ConvRate = IF row.Clicks > 0 THEN Frac(row.Conversions, row.Clicks) ELSE Zero,
              !.ROAS = IF row.Cost > 0 THEN Frac(row.Revenue, row.Cost) ELSE Zero,
              !.Revenue = row.Revenue - row.Cost,
              !.Profit = NumberText(Num(row.Revenue - row.Cost)),
              !.CLV = NumberText(IF row.Conversions > 0 THEN Frac(row.Revenue, row.Conversions)
                                 ELSE Zero)]

calculateMetricsRow(row) ==
  LET impressions == row.Impr
      clicks      == row.Clicks
      cost        == row.Cost
      conversions == row.Conversions
      revenue     == row.Revenue
      ctr      == IF impressions > 0 THEN Frac(clicks, impressions) ELSE Zero
      cpc      == IF clicks > 0 THEN Frac(cost, clicks) ELSE Zero
      cpa      == IF conversions > 0 THEN Frac(cost, conversions) ELSE Zero
      convRate == IF clicks > 0 THEN Frac(conversions, clicks) ELSE Zero
      roas     == IF cost > 0 THEN Frac(revenue, cost) ELSE Zero
      profit   == revenue - cost
      clv      == IF conversions > 0 THEN Frac(revenue, conversions) ELSE Zero
  IN  [row EXCEPT !.CTR = ctr, !.CPC = cpc, !.CPA = cpa, !.ConvRate = convRate,
                  !.ROAS = roas, !.Profit = NumberText(Num(profit)),
                  !.CLV = NumberText(clv)]

calculateMetrics(rows) == [i \in 1..Len(rows) |-> calculateMetricsRow(rows[i])]

-----------------------------------------------------------------------------
(* utils/dataProcessor: calculateKpiSummary                                *)

initialSummary ==
  [impressions |-> 0, clicks |-> 0, cost |-> 0, conversions |-> 0, revenue |-> 0,
   profit |-> 0, ctr |-> Zero, cpc |-> Zero, cpa |-> Zero, convRate |-> Zero,
   roas |-> Zero, clv |-> Zero]

\* data.reduce((acc, row) => ..., { ...initialSummary })
RECURSIVE SumRows(_, _)
SumRows(rows, acc) ==
  IF rows = <<>> THEN acc
  ELSE LET row == Head(rows)
       IN  SumRows(Tail(rows),
             [acc EXCEPT !.impressions = @ + row.Impr,
                         !.clicks      = @ + row.Clicks,
                         !.cost        = @ + row.Cost,
                         !.conversions = @ + row.Conversions,
                         !.revenue     = @ + row.Revenue,
                         !.profit      = @ + (row.Revenue - row.Cost)])

\* the same with ROAS taken as the mean of the rows' ROAS
calculateKpiSummary_MeanOfRates(rows) ==
  LET s == SumRows(rows, initialSummary)
      RowRoas(row) == IF row.Cost > 0 THEN Frac(row.Revenue, row.Cost) ELSE Zero
      total[i \in 0..Len(rows)] ==
        IF i = 0 THEN Zero
        ELSE Frac(total[i - 1][1] * RowRoas(rows[i])[2] + RowRoas(rows[i])[1] * total[i - 1][2],
                  total[i - 1][2] * RowRoas(rows[i])[2])
  IN  [s EXCEPT
        !.ctr      = IF s.impressions > 0 THEN Frac(s.clicks, s.impressions) ELSE Zero,
        !.cpc      = IF s.clicks > 0 THEN Frac(s.cost, s.clicks) ELSE Zero,
        !.cpa      = IF s.conversions > 0 THEN Frac(s.cost, s.conversions) ELSE Zero,
        !.convRate = IF s.clicks > 0 THEN Frac(s.conversions, s.clicks) ELSE Zero,
        !.roas     = IF Len(rows) > 0 THEN Frac(total[Len(rows)][1], total[Len(rows)][2] * Len(rows))
                     ELSE Zero,
        !.clv      = IF s.conversions > 0 THEN Frac(s.revenue, s.conversions) ELSE Zero]

calculateKpiSummary(rows) ==
  LET s == SumRows(rows, initialSummary)
  IN  [s EXCEPT
        !.ctr      = IF s.impressions > 0 THEN Frac(s.clicks, s.impressions) ELSE Zero,
        !.cpc      = IF s.clicks > 0 THEN Frac(s.cost, s.clicks) ELSE Zero,
        !.cpa      = IF s.conversions > 0 THEN Frac(s.cost, s.conversions) ELSE Zero,
        !.convRate = IF s.clicks > 0 THEN Frac(s.conversions, s.clicks) ELSE Zero,
        !.roas     = IF s.cost > 0 THEN Frac(s.revenue, s.cost) ELSE Zero,
        !.clv      = IF s.conversions > 0 THEN Frac(s.revenue, s.conversions) ELSE Zero]

-----------------------------------------------------------------------------
(* utils/dataProcessor: generateTrendData                                  *)

\* String.prototype.localeCompare on strings of digits, '-' and 'Q'
CharCode(c) == IF c = "-" THEN 45 ELSE IF c = "Q" THEN 81 ELSE 48 + DigitVal(c)

RECURSIVE localeCompare(_, _)
localeCompare(a, b) ==
  IF a = <<>> /\ b = <<>> THEN 0
  ELSE IF a = <<>> THEN -1
  ELSE IF b = <<>> THEN 1
  ELSE IF CharCode(Head(a)) < CharCode(Head(b)) THEN -1
  ELSE IF CharCode(Head(a)) > CharCode(Head(b)) THEN 1
  ELSE localeCompare(Tail(a), Tail(b))

\* Number(s) for an unsigned string
NumberOf(s) ==
  IF s = <<>> THEN 0
  ELSE IF \A i \in 1..Len(s) : IsDigit(s[i]) THEN DigitsValue(s, 0) ELSE NaN

\* a.split('-')[i], or the empty string where the code would read undefined
Part(s, i) == IF Len(SplitDash(s)) >= i THEN SplitDash(s)[i] ELSE <<>>

\* the same comparing the keys as strings for every granularity
comparePeriods_AsStrings(a, b, unit) == localeCompare(a, b)

comparePeriods(a, b, unit) ==
  IF unit = "Day" THEN localeCompare(a, b)
  ELSE IF unit \in {"Week", "Month"} THEN
    IF NumberOf(Part(a, 1)) # NumberOf(Part(b, 1))
      THEN NumberOf(Part(a, 1)) - NumberOf(Part(b, 1))
      ELSE NumberOf(Part(a, 2)) - NumberOf(Part(b, 2))
  ELSE IF unit = "Quarter" THEN
    IF Part(a, 1) # Part(b, 1)
      THEN parseInt(Part(a, 1)) - parseInt(Part(b, 1))
      ELSE parseInt(Substring1(Part(a, 2))) - parseInt(Substring1(Part(b, 2)))
  ELSE parseInt(a) - parseInt(b)

\* insert key k into the sorted sequence ks, after the keys it does not precede
RECURSIVE InsertSorted(_, _, _)
InsertSorted(ks, k, unit) ==
  IF ks = <<>> THEN <<k>>
  ELSE IF comparePeriods(k, Head(ks), unit) < 0 THEN <<k>> \o ks
  ELSE <<Head(ks)>> \o InsertSorted(Tail(ks), k, unit)

\* Array.prototype.sort(comparePeriods): a stable sort
RECURSIVE SortPeriods(_, _)
SortPeriods(ks, unit) ==
  IF ks = <<>> THEN <<>>
  ELSE InsertSorted(SortPeriods(SubSeq(ks, 1, Len(ks) - 1), unit), ks[Len(ks)], unit)

\* Object.keys(groupedData): the distinct period keys in order of first appearance
RECURSIVE GroupKeys(_, _, _)
GroupKeys(rows, unit, seen) ==
  IF rows = <<>> THEN seen
  ELSE LET k == PeriodKey(Head(rows).processedDate, unit)
       IN  IF Head(rows).processedDate = NoDate \/ \E i \in 1..Len(seen) : seen[i] = k
             THEN GroupKeys(Tail(rows), unit, seen)
             ELSE GroupKeys(Tail(rows), unit, Append(seen, k))

TrendRow(period, s) ==
  [period |-> period, impressions |-> s.impressions, clicks |-> s.clicks, cost |-> s.cost,
   conversions |-> s.conversions, revenue |-> s.revenue, profit |-> s.profit,
   ctr |-> s.ctr, cpc |-> s.cpc, cpa |-> s.cpa, convRate |-> s.convRate,
   roas |-> s.roas, clv |-> s.clv]

generateTrendData(rows, unit) ==
  LET keys == SortPeriods(GroupKeys(rows, unit, <<>>), unit)
      InGroup(k) == LET T(row) == row.processedDate # NoDate
                                    /\ PeriodKey(row.processedDate, unit) = k
                    IN  SelectSeq(rows, T)
  IN  [i \in 1..Len(keys) |-> TrendRow(keys[i], calculateKpiSummary(InGroup(keys[i])))]

-----------------------------------------------------------------------------
(* utils/dataProcessor: filterByDateRange                                  *)

\* date.setHours(0, 0, 0, 0)
StartOfDay(t) == (t \div 24) * 24

\* an end bound left at the start of its day
EndOfDay_Midnight(t) == (t \div 24) * 24

\* date.setHours(23, 59, 59, 999): the last instant of the day; model times
\* are whole hours, so t <= 23:59:59.999 exactly when t <= 23:00
EndOfDay(t) == (t \div 24) * 24 + 23

normalizeDate(dateStr, isEndDate) ==
  LET p  == SplitDash(dateStr)
      dt == NewDateLocal(NumberOf(p[1]), NumberOf(p[2]) - 1, NumberOf(p[3]))
  IN  IF isEndDate THEN EndOfDay(dt) ELSE StartOfDay(dt)

filterByDateRange(rows, range) ==
  IF range.startDate = <<>> /\ range.endDate = <<>> THEN rows
  ELSE
    LET Keep(row) ==
          /\ row.processedDate # NoDate
          /\ IF range.startDate # <<>> /\ range.endDate # <<>>
               THEN /\ row.processedDate >= normalizeDate(range.startDate, FALSE)
                    /\ row.processedDate <= normalizeDate(range.endDate, TRUE)
             ELSE IF range.startDate # <<>>
               THEN row.processedDate >= normalizeDate(range.startDate, FALSE)
             ELSE row.processedDate <= normalizeDate(range.endDate, TRUE)
    IN  SelectSeq(rows, Keep)

-----------------------------------------------------------------------------
(* utils/constants: DataSourceType                                         *)

GOOGLE_ADS == "google_ads"
MICROSOFT_ADS == "microsoft_ads"
DataSourceType == {GOOGLE_ADS, MICROSOFT_ADS}

-----------------------------------------------------------------------------
(* utils/fieldMapping: parseDate, parseEuropeanDate                        *)

\* s.trim(), for the blank as the only white space
RECURSIVE TrimStart(_)
TrimStart(s) == IF s # <<>> /\ Head(s) = " " THEN TrimStart(Tail(s)) ELSE s

RECURSIVE TrimEnd(_)
TrimEnd(s) == IF s # <<>> /\ s[Len(s)] = " " THEN TrimEnd(SubSeq(s, 1, Len(s) - 1)) ELSE s

trim(s) == TrimEnd(TrimStart(s))

\* s.split('/')
RECURSIVE SplitSlash(_)
SplitSlash(s) ==
  IF \A i \in 1..Len(s) : s[i] # "/" THEN <<s>>
  ELSE LET k == CHOOSE i \in 1..Len(s) : s[i] = "/" /\ \A j \in 1..(i-1) : s[j] # "/"
       IN  <<SubSeq(s, 1, k - 1)>> \o SplitSlash(SubSeq(s, k + 1, Len(s)))

\* ^(\d{a})<sep>(\d{b})<sep>(\d{c})$ on the string whose split at <sep> is
\* parts, for a, b, c ranging over the given sets of lengths
DigitGroups(parts, a, b, c) ==
  /\ Len(parts) = 3
  /\ Len(parts[1]) \in a /\ Len(parts[2]) \in b /\ Len(parts[3]) \in c
  /\ \A i \in 1..3 : \A j \in 1..Len(parts[i]) : IsDigit(parts[i][j])

\* new Date(parseInt(year), parseInt(month) - 1, parseInt(day)): a day or a
\* month out of range rolls over (years are written with four digits)
DateOfParts(year, month, day) ==
  NewDateLocal(parseInt(year), parseInt(month) - 1, parseInt(day))

\* date.getFullYear() === year && date.getMonth() === month - 1 && date.getDate() === day
RoundTrips(dt, year, month, day) ==
  /\ getFullYear(dt) = parseInt(year)
  /\ getMonth(dt) = parseInt(month) - 1
  /\ getDate(dt) = parseInt(day)

\* new Date(s) of the date-only form YYYY-MM-DD: UTC midnight.  For a day of
\* 1..31 that the month does not have, what the parser does is left to the
\* engine: a lenient one rolls over, a strict one gives an Invalid Date
NativeISODate(year, month, day, zone, lenient) ==
  IF RoundTrips(DateOfParts(year, month, day), year, month, day)
       \/ (lenient /\ parseInt(month) \in 1..12 /\ parseInt(day) \in 1..31)
    THEN NewDateUTC(parseInt(year), parseInt(month), parseInt(day), zone)
    ELSE NoDate

\* new Date(s) of NN-NN-YYYY, which is no standard form: a lenient engine
\* reads month-day-year in local time, a strict one gives an Invalid Date
NativeLegacyDate(first, second, year, lenient) ==
  IF lenient /\ parseInt(first) \in 1..12 /\ parseInt(second) \in 1..31
    THEN NewDateLocal(parseInt(year), parseInt(first) - 1, parseInt(second))
    ELSE NoDate

\* new Date(s), NoDate for an Invalid Date; every other string the sheets of
\* this model hold is no date in any engine
NativeDate(s, zone, lenient) ==
  IF DigitGroups(SplitDash(s), {4}, {2}, {2})
    THEN NativeISODate(SplitDash(s)[1], SplitDash(s)[2], SplitDash(s)[3], zone, lenient)
  ELSE IF DigitGroups(SplitDash(s), {2}, {2}, {4})
    THEN NativeLegacyDate(SplitDash(s)[1], SplitDash(s)[2], SplitDash(s)[3], lenient)
  ELSE NoDate

\* the fallback formats: YYYY/M/D, D/M/YYYY, then native parsing
FallbackDate(trimmed, zone, lenient) ==
  IF DigitGroups(SplitSlash(trimmed), {4}, {1, 2}, {1, 2})
    THEN DateOfParts(SplitSlash(trimmed)[1], SplitSlash(trimmed)[2], SplitSlash(trimmed)[3])
  ELSE IF DigitGroups(SplitSlash(trimmed), {1, 2}, {1, 2}, {4})
    THEN DateOfParts(SplitSlash(trimmed)[3], SplitSlash(trimmed)[2], SplitSlash(trimmed)[1])
  ELSE NativeDate(trimmed, zone, lenient)

\* the source-specific format: the date when the regex matches and the
\* components round-trip, NoDate otherwise
SourceDate(matches, year, month, day) ==
  IF matches /\ RoundTrips(DateOfParts(year, month, day), year, month, day)
    THEN DateOfParts(year, month, day)
    ELSE NoDate

SourceFormatDate(trimmed, source) ==
  IF source = GOOGLE_ADS
    THEN SourceDate(DigitGroups(SplitDash(trimmed), {4}, {2}, {2}),
                    Part(trimmed, 1), Part(trimmed, 2), Part(trimmed, 3))
  ELSE IF source = MICROSOFT_ADS
    THEN SourceDate(DigitGroups(SplitDash(trimmed), {2}, {2}, {4}),
                    Part(trimmed, 3), Part(trimmed, 2), Part(trimmed, 1))
  ELSE NoDate

\* parseDate(dateString, dataSource) in time zone zone; NoDate is null
parseDate(s, source, zone, lenient) ==
  IF s = <<>> THEN NoDate
  ELSE IF SourceFormatDate(trim(s), source) # NoDate THEN SourceFormatDate(trim(s), source)
  ELSE FallbackDate(trim(s), zone, lenient)

\* parseEuropeanDate(dateStr): DD-MM-YYYY reordered to YYYY-MM-DD
parseEuropeanDate(dateStr) ==
  IF dateStr = <<>> THEN <<>>
  ELSE IF Len(SplitDash(dateStr)) = 3 /\ parseInt(SplitDash(dateStr)[1]) \in 1..31
    THEN SplitDash(dateStr)[3] \o Dash \o SplitDash(dateStr)[2] \o Dash \o SplitDash(dateStr)[1]
  ELSE dateStr

-----------------------------------------------------------------------------
(* utils/fieldMapping: the field maps and the account name of Source B      *)

\* the null of a field map, and what a lookup of an unknown key gives
NoField == ""

\* map[key] of a map written as a sequence of <<key, value>> pairs
Lookup(map, key, missing) ==
  IF \E i \in 1..Len(map) : map[i][1] = key
    THEN map[CHOOSE i \in 1..Len(map) : map[i][1] = key][2]
    ELSE missing

\* the same with the pre-computed Profit column mapped to the Profit field
googleAdsFieldMap_KeepsProfit ==
  <<
     <<<<"C", "a", "m", "p", "a", "i", "g", "n", " ", "N", "a", "m", "e">>, "Campaign">>,
     <<<<"D", "o", "m", "a", "i", "n">>, "Domain name">>,
     <<<<"A", "c", "c", "o", "u", "n", "t", " ", "N", "a", "m", "e">>, "Account name">>,
     <<<<"L", "a", "n", "g", "u", "a", "g", "e">>, "Language">>,
     <<<<"C", "h", "a", "n", "n", "e", "l", " ", "T", "y", "p", "e">>, "Campaign type">>,
     <<<<"I", "m", "p", "r", "e", "s", "s", "i", "o", "n", "s">>, "Impr.">>,
     <<<<"C", "l", "i", "c", "k", "s">>, "Clicks">>,
     <<<<"C", "o", "s", "t">>, "Cost">>,
     <<<<"C", "o", "n", "v", "e", "r", "s", "i", "o", "n", "s">>, "Conversions">>,
     <<<<"C", "o", "n", "v", ".", " ", "V", "a", "l", "u", "e">>, "Revenue">>,
     <<<<"S", "t", "a", "t", "u", "s">>, "Status">>,
     <<<<"D", "a", "t", "e">>, "Date">>,
     <<<<"C", "T", "R">>, NoField>>,
     <<<<"C", "P", "C">>, NoField>>,
     <<<<"C", "P", "A">>, NoField>>,
     <<<<"C", "o", "n", "v", ".", " ", "R", "a", "t", "e">>, NoField>>,
     <<<<"R", "O", "A", "S">>, NoField>>,
     <<<<"P", "r", "o", "f", "i", "t">>, "Profit">>,
     <<<<"C", "L", "V">>, NoField>>
  >>

googleAdsFieldMap ==
  <<
     <<<<"C", "a", "m", "p", "a", "i", "g", "n", " ", "N", "a", "m", "e">>, "Campaign">>,
     <<<<"D", "o", "m", "a", "i", "n">>, "Domain name">>,
     <<<<"A", "c", "c", "o", "u", "n", "t", " ", "N", "a", "m", "e">>, "Account name">>,
     <<<<"L", "a", "n", "g", "u", "a", "g", "e">>, "Language">>,
     <<<<"C", "h", "a", "n", "n", "e", "l", " ", "T", "y", "p", "e">>, "Campaign type">>,
     <<<<"I", "m", "p", "r", "e", "s", "s", "i", "o", "n", "s">>, "Impr.">>,
     <<<<"C", "l", "i", "c", "k", "s">>, "Clicks">>,
     <<<<"C", "o", "s", "t">>, "Cost">>,
     <<<<"C", "o", "n", "v", "e", "r", "s", "i", "o", "n", "s">>, "Conversions">>,
     <<<<"C", "o", "n", "v", ".", " ", "V", "a", "l", "u", "e">>, "Revenue">>,
     <<<<"S", "t", "a", "t", "u", "s">>, "Status">>,
     <<<<"D", "a", "t", "e">>, "Date">>,
     <<<<"C", "T", "R">>, NoField>>,
     <<<<"C", "P", "C">>, NoField>>,
     <<<<"C", "P", "A">>, NoField>>,
     <<<<"C", "o", "n", "v", ".", " ", "R", "a", "t", "e">>, NoField>>,
     <<<<"R", "O", "A", "S">>, NoField>>,
     <<<<"P", "r", "o", "f", "i", "t">>, NoField>>,
     <<<<"C", "L", "V">>, NoField>>
  >>

microsoftAdsFieldMap ==
  <<
     <<<<"C", "a", "m", "p", "a", "i", "g", "n">>, "Campaign">>,
     <<<<"C", "a", "m", "p", "a", "i", "g", "n", " ", "t", "y", "p", "e">>, "Campaign type">>,
     <<<<"I", "m", "p", "r", "e", "s", "s", "i", "o", "n", "s">>, "Impr.">>,
     <<<<"C", "l", "i", "c", "k", "s">>, "Clicks">>,
     <<<<"S", "p", "e", "n", "d">>, "Cost">>,
     <<<<"C", "o", "n", "v", "e", "r", "s", "i", "o", "n", "s">>, "Conversions">>,
     <<<<"R", "e", "v", "e", "n", "u", "e">>, "Revenue">>,
     <<<<"C", "a", "m", "p", "a", "i", "g", "n", " ", "S", "t", "a", "t", "u", "s">>, "Status">>,
     <<<<"D", "a", "t", "e">>, "Date">>,
     <<<<"A", "c", "c", "o", "u", "n", "t">>, NoField>>,
     <<<<"C", "T", "R">>, NoField>>,
     <<<<"A", "v", "e", "r", "a", "g", "e", " ", "C", "o", "s", "t", "-", "p", "e", "r", "-", "C", "l", "i", "c", "k", " ", "(", "C", "P", "C", ")">>, NoField>>,
     <<<<"C", "o", "s", "t", " ", "p", "e", "r", " ", "a", "c", "q", "u", "i", "s", "i", "t", "i", "o", "n", " ", "(", "C", "P", "A", ")">>, NoField>>,
     <<<<"C", "o", "n", "v", "e", "r", "s", "i", "o", "n", " ", "R", "a", "t", "e">>, NoField>>,
     <<<<"R", "O", "A", "S">>, NoField>>,
     <<<<"R", "e", "v", "e", "n", "u", "e", " ", "P", "e", "r", " ", "C", "o", "n", "v", "e", "r", "s", "i", "o", "n">>, NoField>>
  >>

UpperCaseLetters == <<"A", "B", "C", "D", "E", "F", "G", "H", "I", "J", "K", "L", "M", "N", "O", "P", "Q", "R", "S", "T", "U", "V", "W", "X", "Y", "Z">>
LowerCaseLetters == <<"a", "b", "c", "d", "e", "f", "g", "h", "i", "j", "k", "l", "m", "n", "o", "p", "q", "r", "s", "t", "u", "v", "w", "x", "y", "z">>

LetterIndex(letters, c) == CHOOSE i \in 1..Len(letters) : letters[i] = c
IsLetterOf(letters, c) == \E i \in 1..Len(letters) : letters[i] = c

\* s.toLowerCase() and s.toUpperCase(), for the letters A..Z
toLowerCase(s) ==
  [i \in 1..Len(s) |-> IF IsLetterOf(UpperCaseLetters, s[i])
                         THEN LowerCaseLetters[LetterIndex(UpperCaseLetters, s[i])] ELSE s[i]]

toUpperCase(s) ==
  [i \in 1..Len(s) |-> IF IsLetterOf(LowerCaseLetters, s[i])
                         THEN UpperCaseLetters[LetterIndex(LowerCaseLetters, s[i])] ELSE s[i]]

fieldNameMap ==
  <<
     <<<<"c", "a", "m", "p", "a", "i", "g", "n">>, <<"C", "a", "m", "p", "a", "i", "g", "n">>>>,
     <<<<"c", "a", "m", "p", "a", "i", "g", "n", " ", "t", "y", "p", "e">>, <<"C", "a", "m", "p", "a", "i", "g", "n", " ", "t", "y", "p", "e">>>>,
     <<<<"c", "a", "m", "p", "a", "i", "g", "n", " ", "s", "t", "a", "t", "u", "s">>, <<"C", "a", "m", "p", "a", "i", "g", "n", " ", "S", "t", "a", "t", "u", "s">>>>,
     <<<<"a", "v", "e", "r", "a", "g", "e", " ", "c", "o", "s", "t", "-", "p", "e", "r", "-", "c", "l", "i", "c", "k", " ", "(", "c", "p", "c", ")">>, <<"A", "v", "e", "r", "a", "g", "e", " ", "C", "o", "s", "t", "-", "p", "e", "r", "-", "C", "l", "i", "c", "k", " ", "(", "C", "P", "C", ")">>>>,
     <<<<"c", "o", "s", "t", " ", "p", "e", "r", " ", "a", "c", "q", "u", "i", "s", "i", "t", "i", "o", "n", " ", "(", "c", "p", "a", ")">>, <<"C", "o", "s", "t", " ", "p", "e", "r", " ", "a", "c", "q", "u", "i", "s", "i", "t", "i", "o", "n", " ", "(", "C", "P", "A", ")">>>>,
     <<<<"c", "o", "n", "v", "e", "r", "s", "i", "o", "n", " ", "r", "a", "t", "e">>, <<"C", "o", "n", "v", "e", "r", "s", "i", "o", "n", " ", "R", "a", "t", "e">>>>,
     <<<<"r", "e", "v", "e", "n", "u", "e", " ", "p", "e", "r", " ", "c", "o", "n", "v", "e", "r", "s", "i", "o", "n">>, <<"R", "e", "v", "e", "n", "u", "e", " ", "P", "e", "r", " ", "C", "o", "n", "v", "e", "r", "s", "i", "o", "n">>>>,
     <<<<"i", "m", "p", "r", "e", "s", "s", "i", "o", "n", "s">>, <<"I", "m", "p", "r", "e", "s", "s", "i", "o", "n", "s">>>>,
     <<<<"c", "l", "i", "c", "k", "s">>, <<"C", "l", "i", "c", "k", "s">>>>,
     <<<<"s", "p", "e", "n", "d">>, <<"S", "p", "e", "n", "d">>>>,
     <<<<"c", "o", "n", "v", "e", "r", "s", "i", "o", "n", "s">>, <<"C", "o", "n", "v", "e", "r", "s", "i", "o", "n", "s">>>>,
     <<<<"r", "e", "v", "e", "n", "u", "e">>, <<"R", "e", "v", "e", "n", "u", "e">>>>,
     <<<<"c", "t", "r">>, <<"C", "T", "R">>>>,
     <<<<"r", "o", "a", "s">>, <<"R", "O", "A", "S">>>>,
     <<<<"a", "c", "c", "o", "u", "n", "t">>, <<"A", "c", "c", "o", "u", "n", "t">>>>,
     <<<<"d", "a", "t", "e">>, <<"D", "a", "t", "e">>>>
  >>

normalizeMicrosoftAdsFieldName(fieldName) ==
  Lookup(fieldNameMap, toLowerCase(trim(fieldName)), trim(fieldName))

\* s.indexOf(sub), counted from 0, -1 when sub does not occur
IndexOf(s, sub) ==
  IF \E i \in 1..(Len(s) - Len(sub) + 1) : SubSeq(s, i, i + Len(sub) - 1) = sub
    THEN (CHOOSE i \in 1..(Len(s) - Len(sub) + 1) :
            /\ SubSeq(s, i, i + Len(sub) - 1) = sub
            /\ \A j \in 1..(i - 1) : SubSeq(s, j, j + Len(sub) - 1) # sub) - 1
    ELSE -1

includes(s, sub) == IndexOf(s, sub) # -1

\* s.split(sub)[0] and the rest of s after the first sub
BeforeFirst(s, sub) == IF includes(s, sub) THEN SubSeq(s, 1, IndexOf(s, sub)) ELSE s
AfterFirst(s, sub) == SubSeq(s, IndexOf(s, sub) + Len(sub) + 1, Len(s))

OpenParen == <<" ", "(">>
SpacedDash == <<" ", "-", " ">>
CVwizard == <<"C", "V", "w", "i", "z", "a", "r", "d">>
Jobseeker == <<"J", "o", "b", "s", "e", "e", "k", "e", "r">>
CVDot == <<"C", "V", ".">>

\* accountName.split(' (')[0].trim()
AccountWithoutCode(accountName) == trim(BeforeFirst(accountName, OpenParen))

\* /^CV\.[a-z]{2}$/
IsCountryDomain(s) ==
  /\ Len(s) = 5
  /\ SubSeq(s, 1, 3) = CVDot
  /\ IsLetterOf(LowerCaseLetters, s[4]) /\ IsLetterOf(LowerCaseLetters, s[5])

extractDomainFromMicrosoftAccount(accountName) ==
  IF includes(AccountWithoutCode(accountName), CVwizard) THEN CVwizard \o <<".", "c", "o", "m">>
  ELSE IF includes(AccountWithoutCode(accountName), Jobseeker) THEN Jobseeker \o <<".", "c", "o", "m">>
  ELSE AccountWithoutCode(accountName)

extractLanguageFromMicrosoftAccount(accountName) ==
  IF /\ includes(AccountWithoutCode(accountName), CVwizard)
          \/ includes(AccountWithoutCode(accountName), Jobseeker)
     /\ includes(AccountWithoutCode(accountName), SpacedDash)
    THEN trim(BeforeFirst(AfterFirst(AccountWithoutCode(accountName), SpacedDash), SpacedDash))
  ELSE IF IsCountryDomain(AccountWithoutCode(accountName))
    THEN toUpperCase(SubSeq(AccountWithoutCode(accountName), 4, 5))
  ELSE <<>>

truncateMicrosoftAccountName(accountName) ==
  IF IndexOf(accountName, OpenParen) # -1
    THEN SubSeq(accountName, 1, IndexOf(accountName, OpenParen))
    ELSE accountName

-----------------------------------------------------------------------------
(* utils/dataProcessor: parseNumericValue                                  *)

\* value.replace(/[€$,]/g, '')
StripCurrency(value) ==
  LET Kept(c) == c \notin {"€", "$", ","}
  IN  SelectSeq(value, Kept)

\* parseFloat(s) of a string without sign, decimal point or exponent: the
\* value of the leading digits, NaN if there is none
parseFloat(s) == parseInt(s)

parseNumericValue(value) ==
  IF value = <<>> THEN 0
  ELSE IF parseFloat(StripCurrency(value)) = NaN THEN 0
  ELSE parseFloat(StripCurrency(value))

-----------------------------------------------------------------------------
(* utils/dataProcessor: parseNumericValue and parsePercentage on arbitrary  *)
(* strings.  A JavaScript number is here a record: kind "finite" with its   *)
(* value as an exact fraction, or kind "NaN", "Infinity", "-Infinity".      *)
(* Strings with an exponent part are outside the modelled inputs.           *)

Finite(x) == [kind |-> "finite", value |-> x]
NaNNumber == [kind |-> "NaN", value |-> NotANumber]
PlusInfinity == [kind |-> "Infinity", value |-> NotANumber]
MinusInfinity == [kind |-> "-Infinity", value |-> NotANumber]

InfinityText == <<"I", "n", "f", "i", "n", "i", "t", "y">>

\* the longest prefix of s made of decimal digits
RECURSIVE LeadingDigits(_)
LeadingDigits(s) ==
  IF s = <<>> \/ ~IsDigit(Head(s)) THEN <<>> ELSE <<Head(s)>> \o LeadingDigits(Tail(s))

RECURSIVE Pow10(_)
Pow10(k) == IF k = 0 THEN 1 ELSE 10 * Pow10(k - 1)

\* the digits after the decimal point that follows the integer digits int of s
FractionDigits(s, int) ==
  IF Len(s) > Len(int) /\ s[Len(int) + 1] = "."
    THEN LeadingDigits(SubSeq(s, Len(int) + 2, Len(s)))
    ELSE <<>>

\* the value of the StrDecimalLiteral int.frac, times sign
DecimalValue(sign, int, frac) ==
  Frac(sign * (DigitsValue(int, 0) * Pow10(Len(frac)) + DigitsValue(frac, 0)), Pow10(Len(frac)))

\* parseFloat of the unsigned rest of a string
UnsignedFloat(sign, rest) ==
  IF Len(rest) >= Len(InfinityText) /\ SubSeq(rest, 1, Len(InfinityText)) = InfinityText
    THEN (IF sign < 0 THEN MinusInfinity ELSE PlusInfinity)
  ELSE IF LeadingDigits(rest) = <<>> /\ FractionDigits(rest, <<>>) = <<>>
    THEN NaNNumber
  ELSE Finite(DecimalValue(sign, LeadingDigits(rest), FractionDigits(rest, LeadingDigits(rest))))

\* parseFloat(s): leading white space skipped, an optional sign, then
\* Infinity or the longest decimal literal; NaN if there is none
parseFloatNumber(s) ==
  IF TrimStart(s) # <<>> /\ Head(TrimStart(s)) = "-" THEN UnsignedFloat(-1, Tail(TrimStart(s)))
  ELSE IF TrimStart(s) # <<>> /\ Head(TrimStart(s)) = "+" THEN UnsignedFloat(1, Tail(TrimStart(s)))
  ELSE UnsignedFloat(1, TrimStart(s))

\* the same returning NaN for Infinity
parseFloatNumber_NaNForInfinity(s) ==
  IF parseFloatNumber(s).kind = "finite" THEN parseFloatNumber(s) ELSE NaNNumber

\* parseNumericValue(value) as a JavaScript number
parseNumericValueNumber(value) ==
  IF value = <<>> THEN Finite(Zero)
  ELSE IF parseFloatNumber(StripCurrency(value)).kind = "NaN" THEN Finite(Zero)
  ELSE parseFloatNumber(StripCurrency(value))

\* value.replace(/%/g, '')
StripPercent(value) ==
  LET Kept(c) == c # "%"
  IN  SelectSeq(value, Kept)

\* numValue / 100
DividedBy100(x) ==
  IF x.kind = "finite" THEN Finite(FracDiv(x.value, Num(100))) ELSE x

parsePercentage(value) ==
  IF value = <<>> \/ value = <<"-", "-">> THEN Finite(Zero)
  ELSE IF parseFloatNumber(StripPercent(value)).kind = "NaN" THEN Finite(Zero)
  ELSE DividedBy100(parseFloatNumber(StripPercent(value)))

-----------------------------------------------------------------------------
(* utils/fieldMapping: mapGoogleSheetRow, processGoogleSheetData            *)
(* A parsed CSV row is the sequence of its <<header, cell>> pairs in column *)
(* order; the headers of one row are distinct.                              *)

\* row[key], the empty string where the code would read undefined
RowCell(row, key) == Lookup(row, key, <<>>)

\* the AdData field that the column with header key is copied to
FieldOfHeader(key, source) ==
  IF source = GOOGLE_ADS THEN Lookup(googleAdsFieldMap, key, NoField)
  ELSE IF source = MICROSOFT_ADS
    THEN Lookup(microsoftAdsFieldMap, normalizeMicrosoftAdsFieldName(key), NoField)
  ELSE NoField

\* mappedRow[field] after Object.keys(row).forEach(...): the cell of the last
\* column copied to field, '' if there is none
MappedCell(row, source, field) ==
  LET hits == { i \in 1..Len(row) : FieldOfHeader(row[i][1], source) = field }
  IN  IF hits = {} THEN <<>>
      ELSE row[CHOOSE i \in hits : \A j \in hits : j <= i][2]

\* mappedRow['Date'] after the source-specific reordering
MappedDate(row, source) ==
  IF source = MICROSOFT_ADS /\ MappedCell(row, source, "Date") # <<>>
    THEN parseEuropeanDate(MappedCell(row, source, "Date"))
    ELSE MappedCell(row, source, "Date")

\* the dimensions Source B derives from row['Account']
MappedDimension(row, source, field) ==
  IF source = MICROSOFT_ADS /\ RowCell(row, <<"A", "c", "c", "o", "u", "n", "t">>) # <<>>
    THEN IF field = "Domain name" THEN extractDomainFromMicrosoftAccount(RowCell(row, <<"A", "c", "c", "o", "u", "n", "t">>))
         ELSE IF field = "Account name" THEN truncateMicrosoftAccountName(RowCell(row, <<"A", "c", "c", "o", "u", "n", "t">>))
         ELSE extractLanguageFromMicrosoftAccount(RowCell(row, <<"A", "c", "c", "o", "u", "n", "t">>))
    ELSE MappedCell(row, source, field)

\* mappedRow['Profit']: Source A computes it when the column gave none,
\* Source B always, both only when Revenue and Cost are non-empty
MappedProfit(profit, revenue, cost, source) ==
  IF (source = GOOGLE_ADS => profit = <<>>) /\ source \in DataSourceType
       /\ revenue # <<>> /\ cost # <<>>
    THEN NumberText(Num(parseNumericValue(revenue) - parseNumericValue(cost)))
  ELSE IF profit = <<>> THEN NumberText(NotANumber)
  ELSE [text |-> profit]

\* a field that holds text: the cell, or the absent value for ''
MappedText(cell) == IF cell = <<>> THEN NumberText(NotANumber) ELSE [text |-> cell]

mapGoogleSheetRow(row, source, zone, lenient) ==
  [Campaign |-> MappedCell(row, source, "Campaign"),
   Status |-> MappedCell(row, source, "Status"),
   Date |-> MappedDate(row, source)]
  @@ [AdRow(MappedDimension(row, source, "Account name"),
            MappedDimension(row, source, "Language"),
            MappedCell(row, source, "Campaign type"),
            MappedDimension(row, source, "Domain name"),
            parseDate(MappedDate(row, source), source, zone, lenient),
            parseNumericValue(MappedCell(row, source, "Impr.")),
            parseNumericValue(MappedCell(row, source, "Clicks")),
            parseNumericValue(MappedCell(row, source, "Cost")),
            parseNumericValue(MappedCell(row, source, "Conversions")),
            parseNumericValue(MappedCell(row, source, "Revenue")))
      EXCEPT !.Profit = MappedProfit(MappedCell(row, source, "Profit"),
                                     MappedCell(row, source, "Revenue"),
                                     MappedCell(row, source, "Cost"), source),
             !.CLV = MappedText(MappedCell(row, source, "CLV"))]

\* the Date of a mapped row as processGoogleSheetData standardises it again
StandardDate(mappedRow, source) ==
  IF source = MICROSOFT_ADS THEN parseEuropeanDate(mappedRow.Date) ELSE mappedRow.Date

\* the .map() step: the date is parsed once more and a successful parse
\* replaces processedDate
WithProcessedDate(mappedRow, source, zone, lenient) ==
  IF mappedRow.Date = <<>> THEN mappedRow
  ELSE [mappedRow EXCEPT
          !.Date = StandardDate(mappedRow, source),
          !.processedDate =
             IF parseDate(StandardDate(mappedRow, source), source, zone, lenient) # NoDate
               THEN parseDate(StandardDate(mappedRow, source), source, zone, lenient)
               ELSE @]

processGoogleSheetData(rows, source, zone, lenient) ==
  LET Valid(row) == row.Campaign # <<>> /\ row.Date # <<>>
  IN  SelectSeq([i \in 1..Len(rows) |->
                   WithProcessedDate(mapGoogleSheetRow(rows[i], source, zone, lenient),
                                     source, zone, lenient)],
                Valid)

-----------------------------------------------------------------------------
(* utils/dataProcessor: filterData                                         *)

\* the selection DataProvider starts with: no category restricted
NoFilters == [accounts |-> {}, languages |-> {}, campaignTypes |-> {}, domains |-> {}]

\* a filterData that keeps a row as soon as one category matches
filterData_AnyCategory(rows, filters) ==
  LET Match(row) ==
        \/ filters.accounts = {} \/ row.Account \in filters.accounts
        \/ filters.languages = {} \/ row.Language \in filters.languages
        \/ filters.campaignTypes = {} \/ row.CampaignType \in filters.campaignTypes
        \/ filters.domains = {} \/ row.Domain \in filters.domains
  IN  SelectSeq(rows, Match)

filterData(rows, filters) ==
  LET Match(row) ==
        /\ filters.accounts = {} \/ row.Account \in filters.accounts
        /\ filters.languages = {} \/ row.Language \in filters.languages
        /\ filters.campaignTypes = {} \/ row.CampaignType \in filters.campaignTypes
        /\ filters.domains = {} \/ row.Domain \in filters.domains
  IN  SelectSeq(rows, Match)

-----------------------------------------------------------------------------
(* utils/dataProcessor: extractFilterOptions, generateComparisonData       *)

CompareDimensions == {"Account name", "Language", "Campaign type", "Domain name"}

\* row[dim] for a dimension field of AdData
DimensionOf(row, dim) ==
  CASE dim = "Account name" -> row.Account
    [] dim = "Language" -> row.Language
    [] dim = "Campaign type" -> row.CampaignType
    [] dim = "Domain name" -> row.Domain

\* [...new Set(values)]: the values without repetitions, in order of first
\* occurrence
RECURSIVE Distinct(_, _)
Distinct(values, seen) ==
  IF values = <<>> THEN seen
  ELSE IF \E i \in 1..Len(seen) : seen[i] = Head(values)
    THEN Distinct(Tail(values), seen)
    ELSE Distinct(Tail(values), Append(seen, Head(values)))

DimensionValues(rows, dim) ==
  Distinct([i \in 1..Len(rows) |-> DimensionOf(rows[i], dim)], <<>>)

extractFilterOptions(rows) ==
  [accounts |-> DimensionValues(rows, "Account name"),
   languages |-> DimensionValues(rows, "Language"),
   campaignTypes |-> DimensionValues(rows, "Campaign type"),
   domains |-> DimensionValues(rows, "Domain name")]

\* the same putting every row into every group
GroupOf_EveryRow(rows, by, name) == rows

\* the rows of one group, in data order
GroupOf(rows, by, name) ==
  LET InGroup(row) == DimensionOf(row, by) = name
  IN  SelectSeq(rows, InGroup)

\* one entry per value of the dimension, in the order Object.keys lists the
\* groups: the order of first occurrence (for names that are not array indices)
generateComparisonData(rows, by) ==
  [i \in 1..Len(DimensionValues(rows, by)) |->
     [name |-> DimensionValues(rows, by)[i]]
       @@ calculateKpiSummary(GroupOf(rows, by, DimensionValues(rows, by)[i]))]

-----------------------------------------------------------------------------
(* components/dashboard/TrendsDashboard: the comparison table              *)

\* a value that may be null: <<>> is null, <<v>> is the value v
Null == <<>>
Some(v) == <<v>>

\* trendData.filter(item => parseInt(item.period.split('-')[0], 10) <= endDateYear)
filteredTrendData(trend_, range, zone) ==
  IF range.endDate = <<>> THEN trend_
  ELSE LET InYears(item) ==
             parseInt(Part(item.period, 1)) <= getFullYear(DateParseISO(range.endDate, zone))
       IN  SelectSeq(trend_, InYears)

\* metric in trendData[0]
isAvailableMetric(trend_, metric) == Len(trend_) > 0 /\ metric \in DOMAIN trend_[1]

\* the metrics a bucket stores as whole numbers; the others are ratios
CountMetrics == {"impressions", "clicks", "cost", "conversions", "revenue", "profit"}

\* Number(item[metric]) || 0
MetricValue(item, metric) ==
  IF metric \in CountMetrics THEN Num(item[metric])
  ELSE IF item[metric][2] = 0 THEN Zero ELSE item[metric]

calculateChange(current, previous) ==
  IF previous[1] = 0 THEN Zero
  ELSE FracTimes(FracDiv(FracSub(current, previous), previous), 100)

sortPeriodsOldestToNewest(a, b, unit) ==
  IF unit = "Day" THEN localeCompare(a, b)
  ELSE IF unit \in {"Week", "Month"} THEN
    IF Part(a, 1) # Part(b, 1)
      THEN parseInt(Part(a, 1)) - parseInt(Part(b, 1))
      ELSE parseInt(Part(a, 2)) - parseInt(Part(b, 2))
  ELSE IF unit = "Quarter" THEN
    IF Part(a, 1) # Part(b, 1)
      THEN parseInt(Part(a, 1)) - parseInt(Part(b, 1))
      ELSE parseInt(Substring1(Part(a, 2))) - parseInt(Substring1(Part(b, 2)))
  ELSE parseInt(a) - parseInt(b)

sortPeriodsNewestToOldest(a, b, unit) ==
  IF unit = "Day" THEN localeCompare(b, a)
  ELSE IF unit \in {"Week", "Month"} THEN
    IF Part(a, 1) # Part(b, 1)
      THEN parseInt(Part(b, 1)) - parseInt(Part(a, 1))
      ELSE parseInt(Part(b, 2)) - parseInt(Part(a, 2))
  ELSE IF unit = "Quarter" THEN
    IF Part(a, 1) # Part(b, 1)
      THEN parseInt(Part(b, 1)) - parseInt(Part(a, 1))
      ELSE parseInt(Substring1(Part(b, 2))) - parseInt(Substring1(Part(a, 2)))
  ELSE parseInt(b) - parseInt(a)

\* items.sort(compare) on the period keys: a stable insertion of each item
RECURSIVE InsertItem(_, _, _, _)
InsertItem(sorted, item, unit, newestFirst) ==
  IF sorted = <<>> THEN <<item>>
  ELSE IF (IF newestFirst
             THEN sortPeriodsNewestToOldest(item.period, Head(sorted).period, unit)
             ELSE sortPeriodsOldestToNewest(item.period, Head(sorted).period, unit)) < 0
    THEN <<item>> \o sorted
  ELSE <<Head(sorted)>> \o InsertItem(Tail(sorted), item, unit, newestFirst)

RECURSIVE SortItems(_, _, _)
SortItems(items, unit, newestFirst) ==
  IF items = <<>> THEN <<>>
  ELSE InsertItem(SortItems(SubSeq(items, 1, Len(items) - 1), unit, newestFirst),
                  items[Len(items)], unit, newestFirst)

\* items.find(item => item.period === key), null when there is none
FirstOrNull(items) == IF items = <<>> THEN Null ELSE Some(Head(items))

FindPeriod(items, key) ==
  LET HasKey(item) == item.period = key
  IN  FirstOrNull(SelectSeq(items, HasKey))

\* s.startsWith(prefix)
StartsWith(s, prefix) == Len(s) >= Len(prefix) /\ SubSeq(s, 1, Len(prefix)) = prefix

\* prevYearWeeks.sort((a, b) => bWeek - aWeek)[0]: the first item with the highest week
RECURSIVE HighestWeek(_, _)
HighestWeek(items, best) ==
  IF items = <<>> THEN best
  ELSE IF parseInt(Part(Head(items).period, 2)) > parseInt(Part(best.period, 2))
    THEN HighestWeek(Tail(items), Head(items))
  ELSE HighestWeek(Tail(items), best)

\* the week-1 branch: the last week of the previous year, else any of its weeks
LastWeekOfPreviousYear(complete, currentYear, previousPeriod) ==
  LET exactWeekKey == NumToString(currentYear - 1) \o Dash
                        \o NumToString(getLastISOWeekOfYear(currentYear - 1))
      InPrevYear(item) == StartsWith(item.period, NumToString(currentYear - 1) \o Dash)
  IN  IF FindPeriod(complete, exactWeekKey) # Null THEN FindPeriod(complete, exactWeekKey)
      ELSE IF SelectSeq(complete, InPrevYear) # <<>>
        THEN Some(HighestWeek(Tail(SelectSeq(complete, InPrevYear)),
                              Head(SelectSeq(complete, InPrevYear))))
      ELSE previousPeriod

\* the record the row's previous value is read from, given the neighbour
\* sortedTrendData[i - 1] (or null) as previousPeriod
ResolvePreviousPeriod(previousPeriod, key, complete, unit, period) ==
  IF previousPeriod # Null /\ previousPeriod[1].period = key THEN previousPeriod
  ELSE IF FindPeriod(complete, key) # Null THEN FindPeriod(complete, key)
  ELSE IF unit = "Week" /\ parseInt(Part(period, 2)) = 1
    THEN LastWeekOfPreviousYear(complete, parseInt(Part(period, 1)), previousPeriod)
  ELSE previousPeriod

PreviousYearPeriodKey(period, unit, zone) ==
  IF unit = "Day"
    THEN FormatYMD(setFullYear(DateParseISO(period, zone),
                               getFullYear(DateParseISO(period, zone)) - 1))
    ELSE NumToString(parseInt(Part(period, 1)) - 1) \o Dash \o Part(period, 2)

\* sortedTrendData.find(...) || null, then completeTrendData.find(...)
ResolvePreviousYearPeriod(sorted, complete, key, unit) ==
  IF unit = "Year" THEN Null
  ELSE IF FindPeriod(sorted, key) # Null THEN FindPeriod(sorted, key)
  ELSE FindPeriod(complete, key)

ComparisonRow(currentPeriod, previousPeriod, previousYearPeriod, metric) ==
  [period   |-> currentPeriod.period,
   current  |-> MetricValue(currentPeriod, metric),
   previous |-> IF previousPeriod # Null
                  THEN Some(MetricValue(previousPeriod[1], metric)) ELSE Null,
   change   |-> IF previousPeriod # Null
                  THEN Some(calculateChange(MetricValue(currentPeriod, metric),
                                            MetricValue(previousPeriod[1], metric)))
                  ELSE Null,
   previousYear |-> IF previousYearPeriod # Null
                      THEN Some(MetricValue(previousYearPeriod[1], metric)) ELSE Null,
   yearOverYearChange |->
     IF previousYearPeriod # Null
       THEN Some(calculateChange(MetricValue(currentPeriod, metric),
                                 MetricValue(previousYearPeriod[1], metric)))
       ELSE Null]

\* the body of the loop for sortedTrendData[i] (1-based)
Comparison(sorted, i, complete, unit, zone, metric) ==
  ComparisonRow(
    sorted[i],
    ResolvePreviousPeriod(IF i > 1 THEN Some(sorted[i - 1]) ELSE Null,
                          PreviousPeriodKey(sorted[i].period, unit, zone),
                          complete, unit, sorted[i].period),
    ResolvePreviousYearPeriod(sorted, complete,
                              PreviousYearPeriodKey(sorted[i].period, unit, zone), unit),
    metric)

Comparisons(sorted, complete, unit, zone, metric) ==
  [i \in 1..Len(sorted) |-> Comparison(sorted, i, complete, unit, zone, metric)]

generateComparisonTable(filtered, complete, unit, zone, metric) ==
  IF Len(filtered) < 2 THEN <<>>
  ELSE SortItems(Comparisons(SortItems(filtered, unit, FALSE), complete, unit, zone, metric),
                 unit, TRUE)

\* the table of a render: none while the component shows "Loading trend data..."
RenderComparisonTable(trend_, complete, unit, range, zone, tableMetric_) ==
  IF Len(filteredTrendData(trend_, range, zone)) = 0 THEN <<>>
  ELSE generateComparisonTable(
         filteredTrendData(trend_, range, zone), complete, unit, zone,
         IF isAvailableMetric(trend_, tableMetric_) THEN tableMetric_ ELSE "revenue")

NoRange == [startDate |-> <<>>, endDate |-> <<>>]

\* the pure-function variables when no function is being applied
PipeIdle ==
  /\ data = <<>>
  /\ metricRows = <<>>
  /\ summary = initialSummary
  /\ trend = <<>>
  /\ ranged = <<>>
  /\ called = ""

PeriodIdle ==
  /\ date = NoDate
  /\ isoWeek = NoWeek
  /\ periodKey = <<>>
  /\ previousPeriodKey = <<>>

\* the filter and mapping variables when no function is being applied
ParseIdle ==
  /\ dataSource = GOOGLE_ADS
  /\ lenientEngine = FALSE
  /\ dateString = <<>>
  /\ parsedDate = NoDate

SheetIdle ==
  /\ sourceRows = <<>>
  /\ mappedRows = <<>>

FnIdle ==
  /\ selection = NoFilters
  /\ filteredRows = <<>>
  /\ ParseIdle
  /\ SheetIdle
  /\ recalculated = <<>>

NoFilterOptions == [accounts |-> <<>>, languages |-> <<>>, campaignTypes |-> <<>>, domains |-> <<>>]

\* the useState initial values of the DataProvider's source and fetch state
ProviderIdle ==
  /\ activeDataSource = GOOGLE_ADS
  /\ loading = TRUE
  /\ error = Null
  /\ filterOptions = NoFilterOptions
  /\ compareBy = "Account name"
  /\ comparisonData = <<>>
  /\ fetches = <<>>

\* nothing handed to the number parsers or to generateComparisonData yet
AuxIdle ==
  /\ numericText = <<>>
  /\ numericValue = <<>>
  /\ percentage = <<>>
  /\ dimension = "Account name"
  /\ comparison = <<>>

\* the DataProvider state as constructed, with nothing published to fetch
CtxIdle ==
  /\ sheet = <<>>
  /\ rawData = <<>>
  /\ selectedFilters = NoFilters
  /\ processedData = <<>>
  /\ kpiSummary = <<>>
  /\ trendData = <<>>
  /\ completeTrendData = <<>>
  /\ tableMetric = "revenue"
  /\ comparisonTable = <<>>

-----------------------------------------------------------------------------
(* context/DataContext: DataProvider, rendered by TrendsDashboard          *)

MaxRecords == 4

\* new Date().toISOString().split('T')[0] on the day the dashboard is opened
Today == <<"2", "0", "2", "4", "-", "1", "2", "-", "3", "1">>

Record(pd, cost, revenue) ==
  AdRow("Account", "EN", "Search", "example.com", pd, 10, 1, cost, 1, revenue)

\* rows whose date column parsed to local midnight
LocalRecords ==
  << Record(NewDateLocal(2023, 2, 1), 1, 8),
     Record(NewDateLocal(2023, 11, 31), 2, 0),
     Record(NewDateLocal(2024, 0, 1), 1, 2),
     Record(NewDateLocal(2024, 1, 29), 1, 4),
     Record(NewDateLocal(2024, 2, 1), 2, 16) >>

\* rows whose date column went through native Date parsing: UTC midnight
UtcRecords(zone) ==
  << Record(NewDateUTC(2021, 12, 20, zone), 1, 1),
     Record(NewDateUTC(2021, 12, 24, zone), 1, 2),
     Record(NewDateUTC(2021, 12, 28, zone), 1, 4),
     Record(NewDateUTC(2022, 1, 4, zone), 1, 8) >>

\* the rows of pool at the indices in S, in the pool's order
RECURSIVE Pick(_, _, _)
Pick(pool, S, i) ==
  IF i > Len(pool) THEN <<>>
  ELSE (IF i \in S THEN <<pool[i]>> ELSE <<>>) \o Pick(pool, S, i + 1)

SheetsOf(pool) ==
  { Pick(pool, S, 1) : S \in { T \in SUBSET (1..Len(pool)) : Cardinality(T) <= MaxRecords } }

\* rows of the last two weeks of the year the dashboard is opened in: Monday
\* 23 December (ISO week 52) and Monday 30 December (ISO week 1 of the next year)
YearEndRecords ==
  << Record(NewDateLocal(2024, 11, 23), 1, 1),
     Record(NewDateLocal(2024, 11, 30), 1, 2) >>

\* what processGoogleSheetData can hand over: rows of one source
Sheets(zone) == SheetsOf(LocalRecords) \cup SheetsOf(UtcRecords(zone)) \cup SheetsOf(YearEndRecords)

Range(startDate, endDate) == [startDate |-> startDate, endDate |-> endDate]

\* the ranges the date range selector passes to setDateRange
DateRangeChoices ==
  { Range(Today, Today),
    Range(<<>>, Today),
    Range(<<"2","0","2","4","-","0","1","-","0","1">>, Today),
    Range(<<"2","0","2","3","-","1","2","-","3","1">>, Today),
    Range(<<"2","0","2","1","-","1","2","-","2","4">>, Today),
    Range(<<"2","0","2","3","-","0","3","-","0","1">>, <<"2","0","2","4","-","0","1","-","0","1">>) }

\* the metrics the table's selector passes to setTableMetric
TableMetrics == {"revenue", "roas"}

Init ==
  /\ tz \in TimeZones
  /\ timeUnit = "Month"
  /\ dateRange = Range(Today, Today)
  /\ PeriodIdle
  /\ PipeIdle
  /\ FnIdle
  /\ ProviderIdle
  /\ AuxIdle
  /\ sheet \in Sheets(tz)
  /\ rawData = <<>>
  /\ selectedFilters = NoFilters
  /\ processedData = <<>>
  /\ kpiSummary = Null
  /\ trendData = <<>>
  /\ completeTrendData = <<>>
  /\ tableMetric = "revenue"
  /\ comparisonTable = <<>>

\* the same building the complete series without the dimension filters
ProcessData_CompleteUnfiltered(raw, filters, unit, range) ==
  /\ completeTrendData' = generateTrendData(calculateMetrics(raw), unit)
  /\ processedData' = filterByDateRange(filterData(calculateMetrics(raw), filters), range)
  /\ kpiSummary' = Some(calculateKpiSummary(processedData'))
  /\ trendData' = generateTrendData(processedData', unit)

\* the body of the processing effect for non-empty rawData
ProcessData(raw, filters, unit, range) ==
  /\ completeTrendData' = generateTrendData(filterData(calculateMetrics(raw), filters), unit)
  /\ processedData' = filterByDateRange(filterData(calculateMetrics(raw), filters), range)
  /\ kpiSummary' = Some(calculateKpiSummary(processedData'))
  /\ trendData' = generateTrendData(processedData', unit)

\* the processing effect after a change of timeUnit or dateRange
ProcessingEffect(unit, range) ==
  IF Len(rawData) = 0
    THEN UNCHANGED <<processedData, kpiSummary, trendData, completeTrendData>>
    ELSE ProcessData(rawData, selectedFilters, unit, range)

\* Papa.parse's complete callback, the processing effect and the render
FetchComplete ==
  /\ rawData' = sheet
  /\ IF Len(sheet) = 0
       THEN /\ processedData' = calculateMetrics(sheet)
            /\ UNCHANGED <<kpiSummary, trendData, completeTrendData>>
       ELSE ProcessData(sheet, selectedFilters, timeUnit, dateRange)
  /\ comparisonTable' =
       RenderComparisonTable(trendData', completeTrendData', timeUnit, dateRange, tz, tableMetric)
  /\ UNCHANGED <<tz, timeUnit, dateRange, periodVars, pipeVars, sheet, selectedFilters, tableMetric, fnVars, providerVars, auxVars>>

SetTimeUnit(unit) ==
  /\ timeUnit' = unit
  /\ ProcessingEffect(unit, dateRange)
  /\ comparisonTable' =
       RenderComparisonTable(trendData', completeTrendData', unit, dateRange, tz, tableMetric)
  /\ UNCHANGED <<tz, dateRange, periodVars, pipeVars, sheet, rawData, selectedFilters, tableMetric, fnVars, providerVars, auxVars>>

SetDateRange(range) ==
  /\ dateRange' = range
  /\ ProcessingEffect(timeUnit, range)
  /\ comparisonTable' =
       RenderComparisonTable(trendData', completeTrendData', timeUnit, range, tz, tableMetric)
  /\ UNCHANGED <<tz, timeUnit, periodVars, pipeVars, sheet, rawData, selectedFilters, tableMetric, fnVars, providerVars, auxVars>>

SetTableMetric(metric) ==
  /\ tableMetric' = metric
  /\ comparisonTable' =
       RenderComparisonTable(trendData, completeTrendData, timeUnit, dateRange, tz, metric)
  /\ UNCHANGED <<tz, timeUnit, dateRange, periodVars, pipeVars, sheet, rawData, selectedFilters,
                 processedData, kpiSummary, trendData, completeTrendData, fnVars, providerVars, auxVars>>

Next ==
  \/ FetchComplete
  \/ \E unit \in TimeUnits : SetTimeUnit(unit)
  \/ \E range \in DateRangeChoices : SetDateRange(range)
  \/ \E metric \in TableMetrics : SetTableMetric(metric)

Spec == Init /\ [][Next]_vars

-----------------------------------------------------------------------------
(* Date / period engine applied to one processedDate                       *)

\* every civil date of the modelled years
CivilDates ==
  { c \in [y : Years, m : 1..12, d : 1..31] :
      CivilFromDays(DaysFromCivil(c.y, c.m, c.d)) = c }

\* the Date values parseDate constructs for a civil date: local midnight
\* (regular expression branches) or UTC midnight (native Date parsing)
ProcessedDates(zone) ==
  { NewDateLocal(c.y, c.m - 1, c.d) : c \in CivilDates }
    \cup { NewDateUTC(c.y, c.m, c.d, zone) : c \in CivilDates }

InitPeriod ==
  /\ tz \in TimeZones
  /\ date \in ProcessedDates(tz)
  /\ timeUnit = "Month"
  /\ isoWeek = NoWeek
  /\ periodKey = <<>>
  /\ previousPeriodKey = <<>>
  /\ dateRange = NoRange
  /\ PipeIdle
  /\ CtxIdle
  /\ FnIdle
  /\ ProviderIdle
  /\ AuxIdle

GetISOWeek ==
  /\ isoWeek = NoWeek
  /\ isoWeek' = getISOWeek(date)
  /\ UNCHANGED <<tz, timeUnit, date, periodKey, previousPeriodKey, dateRange, pipeVars, ctxVars, fnVars, providerVars, auxVars>>

ResolvePeriodKeys(unit) ==
  /\ periodKey = <<>>
  /\ timeUnit' = unit
  /\ periodKey' = PeriodKey(date, unit)
  /\ previousPeriodKey' = PreviousPeriodKey(PeriodKey(date, unit), unit, tz)
  /\ UNCHANGED <<tz, date, isoWeek, dateRange, pipeVars, ctxVars, fnVars, providerVars, auxVars>>

NextPeriod ==
  \/ GetISOWeek
  \/ \E unit \in TimeUnits : ResolvePeriodKeys(unit)

SpecPeriod == InitPeriod /\ [][NextPeriod]_vars

-----------------------------------------------------------------------------
(* The metrics calculator and the aggregation engine applied to a dataset  *)

CounterTuples ==
  [Impr : 0..MaxCount, Clicks : 0..MaxCount, Cost : 0..MaxCount,
   Conversions : 0..MaxCount, Revenue : 0..MaxCount]

\* row i of a dataset is dated on day i of March 2024, at local midnight
MetricsRow(i, c) ==
  AdRow("Account", "EN", "Search", "example.com", NewDateLocal(2024, 2, i),
        c.Impr, c.Clicks, c.Cost, c.Conversions, c.Revenue)

\* the two records of the end-to-end scenario (2024-03-01 and 2024-03-02)
ExampleData ==
  << MetricsRow(1, [Impr |-> 200, Clicks |-> 20, Cost |-> 100, Conversions |-> 5, Revenue |-> 150]),
     MetricsRow(2, [Impr |-> 100, Clicks |-> 10, Cost |-> 50, Conversions |-> 0, Revenue |-> 0]) >>

\* datasets of no, one or two rows
MetricsLengths == {0, 1, 2}

\* records of two accounts, languages, campaign types and domains, the last
\* one dated in ISO week 1 of the next year and losing money
GroupingData ==
  << AdRow("Shop NL", "NL", "Search", "shop.nl", NewDateLocal(2024, 2, 1), 200, 20, 100, 5, 150),
     AdRow("Shop BE", "NL", "Display", "shop.be", NewDateLocal(2024, 2, 2), 100, 10, 50, 0, 0),
     AdRow("Shop NL", "FR", "Search", "shop.be", NewDateLocal(2024, 11, 30), 50, 5, 70, 1, 30) >>

MetricsDatasets ==
  { [i \in 1..Len(cs) |-> MetricsRow(i, cs[i])] :
      cs \in UNION { [1..n -> CounterTuples] : n \in MetricsLengths } }
    \cup {ExampleData, GroupingData}

InitMetrics ==
  /\ tz = 1
  /\ timeUnit = "Month"
  /\ dateRange = NoRange
  /\ PeriodIdle
  /\ CtxIdle
  /\ FnIdle
  /\ ProviderIdle
  /\ AuxIdle
  /\ data \in MetricsDatasets
  /\ metricRows = <<>>
  /\ summary = initialSummary
  /\ trend = <<>>
  /\ ranged = <<>>
  /\ called = ""

CalculateMetrics ==
  /\ called = ""
  /\ metricRows' = calculateMetrics(data)
  /\ called' = "calculateMetrics"
  /\ UNCHANGED <<tz, timeUnit, dateRange, periodVars, data, summary, trend, ranged, ctxVars, fnVars, providerVars, auxVars>>

CalculateKpiSummary ==
  /\ called = ""
  /\ summary' = calculateKpiSummary(data)
  /\ called' = "calculateKpiSummary"
  /\ UNCHANGED <<tz, timeUnit, dateRange, periodVars, data, metricRows, trend, ranged, ctxVars, fnVars, providerVars, auxVars>>

GenerateTrendData(unit) ==
  /\ called = ""
  /\ timeUnit' = unit
  /\ trend' = generateTrendData(data, unit)
  /\ called' = "generateTrendData"
  /\ UNCHANGED <<tz, dateRange, periodVars, data, metricRows, summary, ranged, ctxVars, fnVars, providerVars, auxVars>>

GenerateComparisonData(by) ==
  /\ called = ""
  /\ dimension' = by
  /\ comparison' = generateComparisonData(data, by)
  /\ called' = "generateComparisonData"
  /\ UNCHANGED <<tz, timeUnit, dateRange, periodVars, data, metricRows, summary, trend, ranged, ctxVars,
                 fnVars, providerVars, numericText, numericValue, percentage>>

\* calculateMetrics applied to the rows it returned
CalculateMetricsAgain ==
  /\ called = "calculateMetrics"
  /\ recalculated' = calculateMetrics(metricRows)
  /\ called' = "calculateMetrics twice"
  /\ UNCHANGED <<tz, timeUnit, dateRange, periodVars, data, metricRows, summary, trend, ranged,
                 ctxVars, selection, filteredRows, parseVars, sheetVars, providerVars, auxVars>>

NextMetrics ==
  \/ CalculateMetrics
  \/ CalculateMetricsAgain
  \/ CalculateKpiSummary
  \/ \E unit \in TimeUnits : GenerateTrendData(unit)
  \/ \E by \in CompareDimensions : GenerateComparisonData(by)

SpecMetrics == InitMetrics /\ [][NextMetrics]_vars

-----------------------------------------------------------------------------
(* The date-range filter applied to a dataset                              *)

\* the days the rows and the range bounds are taken from: 2024-02-28 .. 2024-03-01
RangeDays == { DaysFromCivil(2024, 2, 28) + k : k \in 0..2 }

\* processedDate values on those days: local midnight, UTC midnight, 23:00 local
RangeRowDates(zone) ==
  { n * 24 : n \in RangeDays } \cup { n * 24 + zone : n \in RangeDays }
    \cup { n * 24 + 23 : n \in RangeDays } \cup {NoDate}

RangeRow(pd) == AdRow("Account", "EN", "Search", "example.com", pd, 1, 1, 1, 1, 1)

RangeDatasets(zone) ==
  UNION { [1..n -> { RangeRow(pd) : pd \in RangeRowDates(zone) }] : n \in 1..MaxRows }

RangeBounds == {<<>>} \cup { FormatYMD(n * 24) : n \in RangeDays }

InitRange ==
  /\ tz \in TimeZones
  /\ timeUnit = "Month"
  /\ dateRange \in [startDate : RangeBounds, endDate : RangeBounds]
  /\ PeriodIdle
  /\ CtxIdle
  /\ FnIdle
  /\ ProviderIdle
  /\ AuxIdle
  /\ data \in RangeDatasets(tz)
  /\ metricRows = <<>>
  /\ summary = initialSummary
  /\ trend = <<>>
  /\ ranged = <<>>
  /\ called = ""

FilterByDateRange ==
  /\ called = ""
  /\ ranged' = filterByDateRange(data, dateRange)
  /\ called' = "filterByDateRange"
  /\ UNCHANGED <<tz, timeUnit, dateRange, periodVars, data, metricRows, summary, trend, ctxVars, fnVars, providerVars, auxVars>>

NextRange == FilterByDateRange

SpecRange == InitRange /\ [][NextRange]_vars

-----------------------------------------------------------------------------
(* Specification SpecFilter: filterData applied to every small dataset and  *)
(* every selection                                                          *)

FilterAccounts == {"Shop NL", "Shop BE"}
FilterLanguages == {"NL", "FR"}
FilterCampaignTypes == {"Search", "Shopping"}
FilterDomains == {"shop.nl", "shop.be"}

\* a selectable account that no record carries: it differs from "Shop NL"
\* in case only
OtherAccount == "shop nl"

FilterRow(account, language, campaignType, domain) ==
  AdRow(account, language, campaignType, domain, NewDateLocal(2024, 0, 1), 1, 1, 1, 1, 1)

FilterRows ==
  { FilterRow(a, l, c, d) : a \in FilterAccounts, l \in FilterLanguages,
                            c \in FilterCampaignTypes, d \in FilterDomains }

FilterLengths == {0, 1, 2}

FilterDatasets == UNION { [1..n -> FilterRows] : n \in FilterLengths }

Selections ==
  [accounts : SUBSET (FilterAccounts \cup {OtherAccount}), languages : SUBSET FilterLanguages,
   campaignTypes : SUBSET FilterCampaignTypes, domains : SUBSET FilterDomains]

InitFilter ==
  /\ tz = 0
  /\ timeUnit = "Month"
  /\ dateRange = NoRange
  /\ PeriodIdle
  /\ CtxIdle
  /\ data \in FilterDatasets
  /\ metricRows = <<>>
  /\ summary = initialSummary
  /\ trend = <<>>
  /\ ranged = <<>>
  /\ called = ""
  /\ selection \in Selections
  /\ filteredRows = <<>>
  /\ ParseIdle
  /\ SheetIdle
  /\ recalculated = <<>>
  /\ ProviderIdle
  /\ AuxIdle

FilterData ==
  /\ called = ""
  /\ filteredRows' = filterData(data, selection)
  /\ called' = "filterData"
  /\ UNCHANGED <<tz, timeUnit, dateRange, periodVars, data, metricRows, summary, trend, ranged,
                 ctxVars, selection, parseVars, sheetVars, recalculated, providerVars, auxVars>>

NextFilter == FilterData

SpecFilter == InitFilter /\ [][NextFilter]_vars

-----------------------------------------------------------------------------
(* Specification SpecParseDate: parseDate applied to date strings of every  *)
(* form, possible and impossible dates alike                                *)

Slash == <<"/">>
Blank == <<" ">>

TwoDigits(n) == PadStart2(NumToString(n))

\* the written forms of year y, month m, day d
WrittenForms(y, m, d) ==
  { NumToString(y) \o Dash \o TwoDigits(m) \o Dash \o TwoDigits(d),
    TwoDigits(d) \o Dash \o TwoDigits(m) \o Dash \o NumToString(y),
    NumToString(y) \o Slash \o TwoDigits(m) \o Slash \o TwoDigits(d),
    NumToString(y) \o Slash \o NumToString(m) \o Slash \o NumToString(d),
    TwoDigits(d) \o Slash \o TwoDigits(m) \o Slash \o NumToString(y),
    NumToString(d) \o Slash \o NumToString(m) \o Slash \o NumToString(y),
    Blank \o NumToString(y) \o Dash \o TwoDigits(m) \o Dash \o TwoDigits(d) \o Blank }

\* a common year and a leap year; months 0..13 and days 0..32 include every
\* component that is out of range by one
WrittenYears == {2023, 2024}
WrittenMonths == 0..13
WrittenDays == 0..32

NotADate == {<<>>, Blank, <<"n", "/", "a">>}

DateStrings ==
  NotADate \cup UNION { WrittenForms(y, m, d) :
                          y \in WrittenYears, m \in WrittenMonths, d \in WrittenDays }

InitParseDate ==
  /\ tz \in TimeZones
  /\ timeUnit = "Month"
  /\ dateRange = NoRange
  /\ PeriodIdle
  /\ PipeIdle
  /\ CtxIdle
  /\ selection = NoFilters
  /\ filteredRows = <<>>
  /\ dataSource \in DataSourceType
  /\ lenientEngine \in BOOLEAN
  /\ dateString \in DateStrings
  /\ parsedDate = NoDate
  /\ SheetIdle
  /\ recalculated = <<>>
  /\ ProviderIdle
  /\ AuxIdle

ParseDate ==
  /\ called = ""
  /\ parsedDate' = parseDate(dateString, dataSource, tz, lenientEngine)
  /\ called' = "parseDate"
  /\ UNCHANGED <<tz, timeUnit, dateRange, periodVars, data, metricRows, summary, trend, ranged,
                 ctxVars, selection, filteredRows, dataSource, lenientEngine, dateString,
                 sheetVars, recalculated, providerVars, auxVars>>

NextParseDate == ParseDate

SpecParseDate == InitParseDate /\ [][NextParseDate]_vars

-----------------------------------------------------------------------------
(* Specification SpecSheet: processGoogleSheetData applied to small sheets  *)
(* of either source, then calculateMetrics, calculateKpiSummary and         *)
(* generateTrendData by Day applied to its result                           *)

\* a row of the Source A sheet: its columns in sheet order
GoogleAdsRow(campaign, dateCell, counters, metrics) ==
  <<
     <<<<"D", "a", "t", "e">>, dateCell>>,
     <<<<"C", "a", "m", "p", "a", "i", "g", "n", " ", "N", "a", "m", "e">>, campaign>>,
     <<<<"A", "c", "c", "o", "u", "n", "t", " ", "N", "a", "m", "e">>, <<"S", "h", "o", "p", " ", "N", "L">>>>,
     <<<<"D", "o", "m", "a", "i", "n">>, <<"s", "h", "o", "p", ".", "n", "l">>>>,
     <<<<"L", "a", "n", "g", "u", "a", "g", "e">>, <<"N", "L">>>>,
     <<<<"C", "h", "a", "n", "n", "e", "l", " ", "T", "y", "p", "e">>, <<"S", "e", "a", "r", "c", "h">>>>,
     <<<<"S", "t", "a", "t", "u", "s">>, <<"E", "n", "a", "b", "l", "e", "d">>>>,
     <<<<"I", "m", "p", "r", "e", "s", "s", "i", "o", "n", "s">>, counters[1]>>,
     <<<<"C", "l", "i", "c", "k", "s">>, counters[2]>>,
     <<<<"C", "o", "s", "t">>, counters[3]>>,
     <<<<"C", "o", "n", "v", "e", "r", "s", "i", "o", "n", "s">>, counters[4]>>,
     <<<<"C", "o", "n", "v", ".", " ", "V", "a", "l", "u", "e">>, counters[5]>>,
     <<<<"C", "T", "R">>, metrics[1]>>,
     <<<<"C", "P", "C">>, metrics[2]>>,
     <<<<"C", "P", "A">>, metrics[3]>>,
     <<<<"C", "o", "n", "v", ".", " ", "R", "a", "t", "e">>, metrics[4]>>,
     <<<<"R", "O", "A", "S">>, metrics[5]>>,
     <<<<"P", "r", "o", "f", "i", "t">>, metrics[6]>>,
     <<<<"C", "L", "V">>, metrics[7]>>
  >>

\* a row of the Source B sheet; the sheet may carry a Profit column, which
\* microsoftAdsFieldMap does not know
MicrosoftAdsRow(campaign, dateCell, counters, metrics) ==
  <<
     <<<<"D", "a", "t", "e">>, dateCell>>,
     <<<<"C", "a", "m", "p", "a", "i", "g", "n">>, campaign>>,
     <<<<"A", "c", "c", "o", "u", "n", "t">>, <<"C", "V", "w", "i", "z", "a", "r", "d", " ", "-", " ", "N", "L", " ", "(", "X", "1", ")">>>>,
     <<<<"C", "a", "m", "p", "a", "i", "g", "n", " ", "t", "y", "p", "e">>, <<"S", "e", "a", "r", "c", "h">>>>,
     <<<<"C", "a", "m", "p", "a", "i", "g", "n", " ", "S", "t", "a", "t", "u", "s">>, <<"A", "c", "t", "i", "v", "e">>>>,
     <<<<"I", "m", "p", "r", "e", "s", "s", "i", "o", "n", "s">>, counters[1]>>,
     <<<<"C", "l", "i", "c", "k", "s">>, counters[2]>>,
     <<<<"S", "p", "e", "n", "d">>, counters[3]>>,
     <<<<"C", "o", "n", "v", "e", "r", "s", "i", "o", "n", "s">>, counters[4]>>,
     <<<<"R", "e", "v", "e", "n", "u", "e">>, counters[5]>>,
     <<<<"C", "T", "R">>, metrics[1]>>,
     <<<<"A", "v", "e", "r", "a", "g", "e", " ", "C", "o", "s", "t", "-", "p", "e", "r", "-", "C", "l", "i", "c", "k", " ", "(", "C", "P", "C", ")">>, metrics[2]>>,
     <<<<"C", "o", "s", "t", " ", "p", "e", "r", " ", "a", "c", "q", "u", "i", "s", "i", "t", "i", "o", "n", " ", "(", "C", "P", "A", ")">>, metrics[3]>>,
     <<<<"C", "o", "n", "v", "e", "r", "s", "i", "o", "n", " ", "R", "a", "t", "e">>, metrics[4]>>,
     <<<<"R", "O", "A", "S">>, metrics[5]>>,
     <<<<"P", "r", "o", "f", "i", "t">>, metrics[6]>>,
     <<<<"R", "e", "v", "e", "n", "u", "e", " ", "P", "e", "r", " ", "C", "o", "n", "v", "e", "r", "s", "i", "o", "n">>, metrics[7]>>
  >>

SourceRow(source, campaign, dateCell, counters, metrics) ==
  IF source = GOOGLE_ADS THEN GoogleAdsRow(campaign, dateCell, counters, metrics)
  ELSE MicrosoftAdsRow(campaign, dateCell, counters, metrics)

NumMetricColumns == 7

\* pre-computed metric cells: all empty (k = 0) or the k-th one filled
MetricCells(k) == [i \in 1..NumMetricColumns |-> IF i = k THEN <<"9">> ELSE <<>>]

NoMetricCells == MetricCells(0)

\* counter cells: impressions, clicks, cost, conversions, revenue
CounterCells ==
  { <<<<"1", ",", "0", "0", "0">>, <<"2", "0">>, <<"€", "5">>, <<"2">>, <<"$", "1", "5">>>>,
    <<<<"8">>, <<"0">>, <<>>, <<"n", "/", "a">>, <<>> >> }

CampaignCells == {<<"B", "r", "a", "n", "d">>, <<>>}

\* the valid calendar dates of the sheets: a leap day, the days around the
\* turn of a year, a day of the first week of 2021
SheetDays ==
  { NewDateLocal(2024, 1, 29), NewDateLocal(2024, 11, 31), NewDateLocal(2025, 0, 1),
    NewDateLocal(2021, 0, 5) }

\* the date t as the source writes it: YYYY-MM-DD for Source A, DD-MM-YYYY
\* for Source B
SourceFormat(t, source) ==
  IF source = GOOGLE_ADS
    THEN NumToString(getFullYear(t)) \o Dash \o TwoDigits(getMonth(t) + 1) \o Dash \o TwoDigits(getDate(t))
    ELSE TwoDigits(getDate(t)) \o Dash \o TwoDigits(getMonth(t) + 1) \o Dash \o NumToString(getFullYear(t))

\* 30 February 2024 as the source writes it
ImpossibleDate(source) ==
  IF source = GOOGLE_ADS THEN <<"2", "0", "2", "4", "-", "0", "2", "-", "3", "0">> ELSE <<"3", "0", "-", "0", "2", "-", "2", "0", "2", "4">>

DateCells(source) ==
  { SourceFormat(t, source) : t \in SheetDays }
    \cup {ImpossibleDate(source), <<"n", "/", "a">>, <<>>}

\* the counter cells of the rows of two-row sheets
FirstCounterCells ==
  CHOOSE n \in CounterCells : n[3] # <<>>

\* rows without pre-computed metric cells
PlainRows(source) ==
  { SourceRow(source, c, dc, FirstCounterCells, NoMetricCells) :
      c \in CampaignCells, dc \in DateCells(source) }

\* one-row sheets, pairs of plain rows, and pairs of rows of which the
\* second differs from the first in one pre-computed metric cell only
SourceSheets(source) ==
  { <<SourceRow(source, c, dc, n, MetricCells(k))>> :
      c \in CampaignCells, dc \in DateCells(source), n \in CounterCells, k \in 0..NumMetricColumns }
    \cup { <<r1, r2>> : r1 \in PlainRows(source), r2 \in PlainRows(source) }
    \cup { <<SourceRow(source, c, dc, n, NoMetricCells), SourceRow(source, c, dc, n, MetricCells(k))>> :
             c \in CampaignCells, dc \in DateCells(source), n \in CounterCells, k \in 1..NumMetricColumns }

InitSheet ==
  /\ tz \in TimeZones
  /\ timeUnit = "Day"
  /\ dateRange = NoRange
  /\ PeriodIdle
  /\ PipeIdle
  /\ CtxIdle
  /\ selection = NoFilters
  /\ filteredRows = <<>>
  /\ dataSource \in DataSourceType
  /\ lenientEngine \in BOOLEAN
  /\ dateString = <<>>
  /\ parsedDate = NoDate
  /\ sourceRows \in SourceSheets(dataSource)
  /\ mappedRows = <<>>
  /\ recalculated = <<>>
  /\ ProviderIdle
  /\ AuxIdle

ProcessGoogleSheetData ==
  /\ called = ""
  /\ mappedRows' = processGoogleSheetData(sourceRows, dataSource, tz, lenientEngine)
  /\ called' = "processGoogleSheetData"
  /\ UNCHANGED <<tz, timeUnit, dateRange, periodVars, data, metricRows, summary, trend, ranged,
                 ctxVars, selection, filteredRows, parseVars, sourceRows,
                 recalculated, providerVars, auxVars>>

CalculateSheetMetrics ==
  /\ called = "processGoogleSheetData"
  /\ metricRows' = calculateMetrics(mappedRows)
  /\ called' = "calculateMetrics"
  /\ UNCHANGED <<tz, timeUnit, dateRange, periodVars, data, summary, trend, ranged,
                 ctxVars, fnVars, providerVars, auxVars>>

CalculateSheetSummary ==
  /\ called = "calculateMetrics"
  /\ summary' = calculateKpiSummary(metricRows)
  /\ called' = "calculateKpiSummary"
  /\ UNCHANGED <<tz, timeUnit, dateRange, periodVars, data, metricRows, trend, ranged,
                 ctxVars, fnVars, providerVars, auxVars>>

GenerateSheetTrend ==
  /\ called = "calculateMetrics"
  /\ trend' = generateTrendData(metricRows, timeUnit)
  /\ called' = "generateTrendData"
  /\ UNCHANGED <<tz, timeUnit, dateRange, periodVars, data, metricRows, summary, ranged,
                 ctxVars, fnVars, providerVars, auxVars>>

NextSheet ==
  \/ ProcessGoogleSheetData
  \/ CalculateSheetMetrics
  \/ CalculateSheetSummary
  \/ GenerateSheetTrend

SpecSheet == InitSheet /\ [][NextSheet]_vars

-----------------------------------------------------------------------------
(* Specification SpecFetch: the DataProvider from its mount on: fetches     *)
(* started by the mount, the refresh interval, refreshData and              *)
(* switchDataSource, their completions in any order, and the settings       *)
(* changed meanwhile.  Every handler is modelled together with the          *)
(* processing effect it triggers.                                           *)

MaxFetches == 3

\* what the published sheet of a source can answer to a fetch: no rows, one
\* row of today, a row of an earlier day followed by a row whose date cell
\* is no date, that row alone, or a row of today after a row of the first
\* day of the month
Responses(source) ==
  << <<>>,
     <<SourceRow(source, <<"B", "r", "a", "n", "d">>, SourceFormat(NewDateLocal(2024, 11, 31), source),
                 FirstCounterCells, NoMetricCells)>>,
     <<SourceRow(source, <<"B", "r", "a", "n", "d">>, SourceFormat(NewDateLocal(2024, 1, 29), source),
                 FirstCounterCells, NoMetricCells),
       SourceRow(source, <<"G", "e", "n", "e", "r", "i", "c">>, <<"n", "/", "a">>,
                 FirstCounterCells, NoMetricCells)>>,
     <<SourceRow(source, <<"G", "e", "n", "e", "r", "i", "c">>, <<"n", "/", "a">>,
                 FirstCounterCells, NoMetricCells)>>,
     <<SourceRow(source, <<"B", "r", "a", "n", "d">>, SourceFormat(NewDateLocal(2024, 11, 1), source),
                 FirstCounterCells, NoMetricCells),
       SourceRow(source, <<"B", "r", "a", "n", "d">>, SourceFormat(NewDateLocal(2024, 11, 31), source),
                 FirstCounterCells, NoMetricCells)>> >>

\* the environment of the provider: its time zone and its Date parser
FetchZone == CHOOSE zone \in TimeZones : zone > 0
FetchEngineLenient == FALSE

\* mappedData of the complete callback for every response of every source
MappedResponses ==
  [source \in DataSourceType |->
     [r \in 1..Len(Responses(source)) |->
        processGoogleSheetData(Responses(source)[r], source, FetchZone, FetchEngineLenient)]]

MappedData(source, r) == MappedResponses[source][r]

Fetch(source, status, response) == [source |-> source, status |-> status, response |-> response]

\* the selections, granularities, dimensions and ranges set while fetching
FetchFilterChoices == {NoFilters, [NoFilters EXCEPT !.accounts = {<<"S", "h", "o", "p", " ", "N", "L">>}]}
FetchTimeUnits == {"Month", "Day"}
FetchCompareChoices == {"Account name", "Campaign type"}
FetchDateRanges == {Range(Today, Today), NoRange}

restVars == <<tz, periodVars, pipeVars, fnVars, auxVars>>

\* the state after the mount: the mount effect has called fetchData
InitFetch ==
  /\ tz = FetchZone
  /\ timeUnit = "Month"
  /\ dateRange = Range(Today, Today)
  /\ PeriodIdle
  /\ PipeIdle
  /\ CtxIdle
  /\ selection = NoFilters
  /\ filteredRows = <<>>
  /\ dataSource = GOOGLE_ADS
  /\ lenientEngine = FetchEngineLenient
  /\ dateString = <<>>
  /\ parsedDate = NoDate
  /\ SheetIdle
  /\ recalculated = <<>>
  /\ activeDataSource = GOOGLE_ADS
  /\ loading = TRUE
  /\ error = Null
  /\ filterOptions = NoFilterOptions
  /\ compareBy = "Account name"
  /\ comparisonData = <<>>
  /\ fetches = <<Fetch(GOOGLE_ADS, "pending", 0)>>
  /\ AuxIdle

\* the processing effect run for raw data raw and the given settings;
\* processed is what processedData holds when the effect returns early
RunProcessingEffect(raw, processed, filters, unit, by, range) ==
  IF Len(raw) = 0
    THEN /\ processedData' = processed
         /\ UNCHANGED <<kpiSummary, trendData, completeTrendData, comparisonData, error>>
    ELSE /\ ProcessData(raw, filters, unit, range)
         /\ comparisonData' = generateComparisonData(processedData', by)
         /\ error' = Null

\* fetchData(dataSource) up to its first await
StartFetch(source) ==
  /\ Len(fetches) < MaxFetches
  /\ loading' = TRUE
  /\ fetches' = Append(fetches, Fetch(source, "pending", 0))

\* the interval callback of the mount effect
RefreshTick ==
  /\ StartFetch(activeDataSource)
  /\ UNCHANGED <<timeUnit, dateRange, ctxVars, restVars, activeDataSource, error, filterOptions,
                 compareBy, comparisonData>>

\* refreshData: "Reset All" of the filter panel at any time, "Refresh" of
\* the data source selector while not loading
RefreshData ==
  /\ StartFetch(activeDataSource)
  /\ UNCHANGED <<timeUnit, dateRange, ctxVars, restVars, activeDataSource, error, filterOptions,
                 compareBy, comparisonData>>

\* the same keeping the selection of the old source
SwitchDataSource_KeepsSelection(source) ==
  IF source = activeDataSource
    THEN UNCHANGED vars
    ELSE /\ ~loading
         /\ activeDataSource' = source
         /\ selectedFilters' = selectedFilters
         /\ StartFetch(source)
         /\ RunProcessingEffect(rawData, processedData, selectedFilters, timeUnit, compareBy, dateRange)
         /\ UNCHANGED <<timeUnit, dateRange, sheet, rawData, tableMetric, comparisonTable, restVars,
                        filterOptions, compareBy>>

\* switchDataSource, called by the buttons of the data source selector, which
\* are disabled while loading; for another source the mount effect
\* (clearInterval, fetchData, setInterval) and the processing effect follow
SwitchDataSource(source) ==
  IF source = activeDataSource
    THEN UNCHANGED vars
    ELSE /\ ~loading
         /\ activeDataSource' = source
         /\ selectedFilters' = NoFilters
         /\ StartFetch(source)
         /\ RunProcessingEffect(rawData, processedData, NoFilters, timeUnit, compareBy, dateRange)
         /\ UNCHANGED <<timeUnit, dateRange, sheet, rawData, tableMetric, comparisonTable, restVars,
                        filterOptions, compareBy>>

\* Papa.parse's complete callback of the i-th fetch, answered with the r-th
\* response, then the processing effect
FetchSucceeded(i, r) ==
  /\ fetches[i].status = "pending"
  /\ fetches' = [fetches EXCEPT ![i] = Fetch(fetches[i].source, "done", r)]
  /\ rawData' = MappedData(fetches[i].source, r)
  /\ filterOptions' = extractFilterOptions(rawData')
  /\ loading' = FALSE
  /\ RunProcessingEffect(rawData', calculateMetrics(rawData'), selectedFilters, timeUnit, compareBy,
                         dateRange)
  /\ UNCHANGED <<timeUnit, dateRange, sheet, selectedFilters, tableMetric, comparisonTable, restVars,
                 activeDataSource, compareBy>>

\* the same handler also dropping the data held
FetchFailed_DropsData(i) ==
  /\ fetches[i].status = "pending"
  /\ fetches' = [fetches EXCEPT ![i] = Fetch(fetches[i].source, "failed", 0)]
  /\ error' = Some("Error loading data")
  /\ loading' = FALSE
  /\ rawData' = <<>>
  /\ UNCHANGED <<timeUnit, dateRange, sheet, selectedFilters, processedData, kpiSummary, trendData,
                 completeTrendData, tableMetric, comparisonTable, restVars, activeDataSource,
                 filterOptions, compareBy, comparisonData>>

\* the catch block of fetchData: fetchGoogleSheetData threw
FetchFailed(i) ==
  /\ fetches[i].status = "pending"
  /\ fetches' = [fetches EXCEPT ![i] = Fetch(fetches[i].source, "failed", 0)]
  /\ error' = Some("Error loading data")
  /\ loading' = FALSE
  /\ UNCHANGED <<timeUnit, dateRange, ctxVars, restVars, activeDataSource, filterOptions, compareBy,
                 comparisonData>>

\* Papa.parse's error callback
ParseFailed(i) ==
  /\ fetches[i].status = "pending"
  /\ fetches' = [fetches EXCEPT ![i] = Fetch(fetches[i].source, "failed", 0)]
  /\ error' = Some("Error parsing CSV")
  /\ loading' = FALSE
  /\ UNCHANGED <<timeUnit, dateRange, ctxVars, restVars, activeDataSource, filterOptions, compareBy,
                 comparisonData>>

\* setSelectedFilters from the filter panel, then the processing effect
SelectFilters(filters) ==
  /\ filters # selectedFilters
  /\ selectedFilters' = filters
  /\ RunProcessingEffect(rawData, processedData, filters, timeUnit, compareBy, dateRange)
  /\ UNCHANGED <<timeUnit, dateRange, sheet, rawData, tableMetric, comparisonTable, restVars,
                 activeDataSource, loading, filterOptions, compareBy, fetches>>

\* setTimeUnit from the filter panel, then the processing effect
SelectTimeUnit(unit) ==
  /\ unit # timeUnit
  /\ timeUnit' = unit
  /\ RunProcessingEffect(rawData, processedData, selectedFilters, unit, compareBy, dateRange)
  /\ UNCHANGED <<dateRange, sheet, rawData, selectedFilters, tableMetric, comparisonTable, restVars,
                 activeDataSource, loading, filterOptions, compareBy, fetches>>

\* setCompareBy, then the processing effect
SelectCompareBy(by) ==
  /\ by # compareBy
  /\ compareBy' = by
  /\ RunProcessingEffect(rawData, processedData, selectedFilters, timeUnit, by, dateRange)
  /\ UNCHANGED <<timeUnit, dateRange, sheet, rawData, selectedFilters, tableMetric, comparisonTable,
                 restVars, activeDataSource, loading, filterOptions, fetches>>

\* setDateRange from the date range selector, then the processing effect
SelectDateRange(range) ==
  /\ range # dateRange
  /\ dateRange' = range
  /\ RunProcessingEffect(rawData, processedData, selectedFilters, timeUnit, compareBy, range)
  /\ UNCHANGED <<timeUnit, sheet, rawData, selectedFilters, tableMetric, comparisonTable, restVars,
                 activeDataSource, loading, filterOptions, compareBy, fetches>>

NextFetch ==
  \/ RefreshTick
  \/ RefreshData
  \/ \E source \in DataSourceType : SwitchDataSource(source)
  \/ \E i \in 1..Len(fetches) : \E r \in 1..Len(Responses(fetches[i].source)) : FetchSucceeded(i, r)
  \/ \E i \in 1..Len(fetches) : FetchFailed(i)
  \/ \E i \in 1..Len(fetches) : ParseFailed(i)
  \/ \E filters \in FetchFilterChoices : SelectFilters(filters)
  \/ \E unit \in FetchTimeUnits : SelectTimeUnit(unit)
  \/ \E by \in FetchCompareChoices : SelectCompareBy(by)
  \/ \E range \in FetchDateRanges : SelectDateRange(range)

SpecFetch == InitFetch /\ [][NextFetch]_vars

-----------------------------------------------------------------------------
(* Specification SpecNumeric: parseNumericValue and parsePercentage applied *)
(* to every short string over digits, sign, point, the stripped symbols,    *)
(* a letter and the blank, and to some longer cells                         *)

MaxChars == 3

NumericAlphabet == {"0", "1", "5", ".", "-", ",", "%", "$", "a", " "}

\* the strings of exactly n characters
RECURSIVE StringsOfLength(_)
StringsOfLength(n) ==
  IF n = 0 THEN {<<>>}
  ELSE { <<c>> \o rest : c \in NumericAlphabet, rest \in StringsOfLength(n - 1) }

LongerCells ==
  { <<"I", "n", "f", "i", "n", "i", "t", "y">>, <<"-", "I", "n", "f", "i", "n", "i", "t", "y">>, <<"$", "I", "n", "f", "i", "n", "i", "t", "y">>, <<"I", "n", "f", "i", "n", "i", "t", "y", "%">>, <<"1", ",", "0", "0", "0">>, <<"€", "5", ".", "5", "0">>, <<"1", "0", ".", "5", "0", "%">>, <<"1", "2", "a", "b", "c">>, <<"n", "/", "a">>, <<"+", "1", ".", "5">>, <<"-", "-", "%">> }

NumericTexts == (UNION { StringsOfLength(n) : n \in 0..MaxChars }) \cup LongerCells

InitNumeric ==
  /\ tz \in TimeZones
  /\ timeUnit = "Day"
  /\ dateRange = NoRange
  /\ PeriodIdle
  /\ PipeIdle
  /\ CtxIdle
  /\ FnIdle
  /\ ProviderIdle
  /\ numericText \in NumericTexts
  /\ numericValue = <<>>
  /\ percentage = <<>>
  /\ dimension = "Account name"
  /\ comparison = <<>>

ParseNumericValue ==
  /\ numericValue = <<>>
  /\ numericValue' = <<parseNumericValueNumber(numericText)>>
  /\ UNCHANGED <<tz, timeUnit, dateRange, periodVars, pipeVars, ctxVars, fnVars, providerVars,
                 numericText, percentage, dimension, comparison>>

ParsePercentage ==
  /\ percentage = <<>>
  /\ percentage' = <<parsePercentage(numericText)>>
  /\ UNCHANGED <<tz, timeUnit, dateRange, periodVars, pipeVars, ctxVars, fnVars, providerVars,
                 numericText, numericValue, dimension, comparison>>

NextNumeric ==
  \/ ParseNumericValue
  \/ ParsePercentage

SpecNumeric == InitNumeric /\ [][NextNumeric]_vars

-----------------------------------------------------------------------------
(* Specification SpecSourceB: processGoogleSheetData applied to Source B    *)
(* sheets: two rows with the same cells whose headers differ in letter case *)
(* or surrounding blanks in one column, and single rows of every kind of    *)
(* account name                                                             *)

\* a Source B row of 29-02-2024
SourceBRow ==
  MicrosoftAdsRow(<<"B", "r", "a", "n", "d">>, SourceFormat(NewDateLocal(2024, 1, 29), MICROSOFT_ADS),
                  FirstCounterCells, MetricCells(1))

\* the spellings of a header that differ in letter case or surrounding blanks
HeaderVariants(header) ==
  {toUpperCase(header), toLowerCase(header), <<" ">> \o header, header \o <<" ">>}

\* row with the header of its k-th column spelled header
WithHeader(row, k, header) == [row EXCEPT ![k] = <<header, row[k][2]>>]

HeaderVariantSheets ==
  UNION { { <<SourceBRow, WithHeader(SourceBRow, k, header)>> : header \in HeaderVariants(SourceBRow[k][1]) } :
          k \in 1..Len(SourceBRow) }
    \ { <<SourceBRow, SourceBRow>> }

AccountHeader == <<"A", "c", "c", "o", "u", "n", "t">>

\* row with account as the cell of its Account column
WithAccount(row, account) ==
  [i \in 1..Len(row) |-> IF row[i][1] = AccountHeader THEN <<AccountHeader, account>> ELSE row[i]]

AccountCells ==
  { <<"C", "V", "w", "i", "z", "a", "r", "d", " ", "-", " ", "N", "L", " ", "(", "X", "1", ")">>,
    <<"J", "o", "b", "s", "e", "e", "k", "e", "r", " ", "-", " ", "F", "R", " ", "(", "X", "2", ")">>,
    <<"C", "V", ".", "n", "l", " ", "(", "X", "3", ")">>,
    <<"C", "V", ".", "N", "L", " ", "(", "X", "4", ")">>,
    <<"A", "c", "m", "e", " ", "-", " ", "D", "E", " ", "(", "X", "5", ")">>,
    <<"C", "V", "w", "i", "z", "a", "r", "d", " ", "(", "X", "6", ")">>,
    <<"C", "V", "w", "i", "z", "a", "r", "d", " ", "-", " ", "E", "N", " ", "-", " ", "B", "r", "a", "n", "d", " ", "(", "X", "7", ")">>,
    <<"A", "c", "m", "e">>,
    <<"C", "V", "w", "i", "z", "a", "r", "d", " ", "(", "o", "l", "d", ")", " ", "-", " ", "N", "L", " ", "(", "X", "8", ")">>,
    <<"c", "v", "w", "i", "z", "a", "r", "d", " ", "-", " ", "N", "L", " ", "(", "X", "9", ")">>,
    <<"J", "o", "b", "s", "e", "e", "k", "e", "r", " ", "N", "L">> }

AccountSheets == { <<WithAccount(SourceBRow, account)>> : account \in AccountCells }

InitSourceB ==
  /\ tz \in TimeZones
  /\ timeUnit = "Day"
  /\ dateRange = NoRange
  /\ PeriodIdle
  /\ PipeIdle
  /\ CtxIdle
  /\ selection = NoFilters
  /\ filteredRows = <<>>
  /\ dataSource = MICROSOFT_ADS
  /\ lenientEngine \in BOOLEAN
  /\ dateString = <<>>
  /\ parsedDate = NoDate
  /\ sourceRows \in HeaderVariantSheets \cup AccountSheets
  /\ mappedRows = <<>>
  /\ recalculated = <<>>
  /\ ProviderIdle
  /\ AuxIdle

NextSourceB == ProcessGoogleSheetData

SpecSourceB == InitSourceB /\ [][NextSourceB]_vars

-----------------------------------------------------------------------------
(* ISO-8601 reference: the week of a day number, from the definition       *)

ISOWeekOfDay(n) ==
  LET mondayOffset  == (((n + 4) % 7) + 6) % 7          \* days since Monday
      thursday      == n - mondayOffset + 3
      y             == CivilFromDays(thursday).y
      jan1          == DaysFromCivil(y, 1, 1)
      firstThursday == jan1 + (((4 - ((jan1 + 4) % 7)) + 7) % 7)
  IN  [year |-> y, week |-> ((thursday - firstThursday) \div 7) + 1]

\* C3: getISOWeek returns the ISO-8601 (year, week) of the date's calendar
\* day: the week is in 1..53, the ISO year it names has 52 or 53 weeks and
\* the week is one of them, a date in January-March is never assigned to the
\* following year, and 2024-01-01 is 2024-1, 2023-12-31 is 2023-52 and
\* 2023-01-01 is 2022-52.
C3_ISOWeekIsISO8601 ==
  isoWeek # NoWeek =>
    /\ isoWeek = ISOWeekOfDay(date \div 24)
    /\ isoWeek.week \in 1..53
    /\ getISOWeek(NewDateLocal(isoWeek.year, 11, 28)).week \in {52, 53}
    /\ isoWeek.week <= getISOWeek(NewDateLocal(isoWeek.year, 11, 28)).week
    /\ (getMonth(date) < 3 => isoWeek.year <= getFullYear(date))
    /\ (date \div 24 = DaysFromCivil(2024, 1, 1) => isoWeek = [year |-> 2024, week |-> 1])
    /\ (date \div 24 = DaysFromCivil(2023, 12, 31) => isoWeek = [year |-> 2023, week |-> 52])
    /\ (date \div 24 = DaysFromCivil(2023, 1, 1) => isoWeek = [year |-> 2022, week |-> 52])

\* the same statement for dates at local midnight only (not a claim; shows
\* which inputs the divergence needs)
ISOWeekAtLocalMidnight ==
  (isoWeek # NoWeek /\ getHours(date) = 0) => isoWeek = ISOWeekOfDay(date \div 24)

\* a row of the same source dated on the last day before the bucket of dt begins
LastDayBeforeBucket(dt, unit) ==
  IF unit = "Week" THEN dt - 7 * 24
  ELSE IF unit = "Month" THEN setDate(dt, 0)
  ELSE IF unit = "Quarter"
    THEN DaysFromCivil(getFullYear(dt), 3 * (getMonth(dt) \div 3) + 1, 0) * 24 + getHours(dt)
  ELSE DaysFromCivil(getFullYear(dt), 1, 0) * 24 + getHours(dt)

\* C4: for Week, Month, Quarter and Year the predecessor key of the bucket
\* key of a date equals the key generateTrendData gives to the last day
\* before that bucket; 2024-1 resolves to 2023-52 and 2024-Q1 to 2023-Q4.
C4_PredecessorKeyIsPreviousBucket ==
  (periodKey # <<>> /\ timeUnit \in {"Week", "Month", "Quarter", "Year"}) =>
    /\ previousPeriodKey = PeriodKey(LastDayBeforeBucket(date, timeUnit), timeUnit)
    /\ (timeUnit = "Week" /\ periodKey = <<"2", "0", "2", "4", "-", "1">>
          => previousPeriodKey = <<"2", "0", "2", "3", "-", "5", "2">>)
    /\ (timeUnit = "Quarter" /\ periodKey = <<"2", "0", "2", "4", "-", "Q", "1">>
          => previousPeriodKey = <<"2", "0", "2", "3", "-", "Q", "4">>)

PredecessorKeyAtLocalMidnight ==
  (periodKey # <<>> /\ timeUnit \in {"Week", "Month", "Quarter", "Year"} /\ getHours(date) = 0) =>
    previousPeriodKey = PeriodKey(LastDayBeforeBucket(date, timeUnit), timeUnit)

\* C5: for Day the predecessor key of a day key is the key of the calendar
\* date one day earlier, zero-padded, in every time zone.
C5_DayPredecessorIsPreviousDate ==
  (periodKey # <<>> /\ timeUnit = "Day") =>
    /\ previousPeriodKey = FormatYMD(date - 24)
    /\ Len(previousPeriodKey) = 10

DayPredecessorEastOfUTC ==
  (periodKey # <<>> /\ timeUnit = "Day" /\ tz >= 0) => previousPeriodKey = FormatYMD(date - 24)

-----------------------------------------------------------------------------
(* Metrics calculator                                                      *)

IsNumber(x) == x[2] > 0

RowRatesGuarded(r) ==
  /\ IsNumber(r.CTR) /\ IsNumber(r.CPC) /\ IsNumber(r.CPA) /\ IsNumber(r.ConvRate)
  /\ IsNumber(r.ROAS) /\ IsNumber(r.CLV.text)
  /\ (r.Impr = 0 => r.CTR = Zero)
  /\ (r.Clicks = 0 => r.CPC = Zero /\ r.ConvRate = Zero)
  /\ (r.Conversions = 0 => r.CPA = Zero /\ r.CLV.text = Zero)
  /\ (r.Cost = 0 => r.ROAS = Zero)

SummaryRatesGuarded(r) ==
  /\ IsNumber(r.ctr) /\ IsNumber(r.cpc) /\ IsNumber(r.cpa) /\ IsNumber(r.convRate)
  /\ IsNumber(r.roas) /\ IsNumber(r.clv)
  /\ (r.impressions = 0 => r.ctr = Zero)
  /\ (r.clicks = 0 => r.cpc = Zero /\ r.convRate = Zero)
  /\ (r.conversions = 0 => r.cpa = Zero /\ r.clv = Zero)
  /\ (r.cost = 0 => r.roas = Zero)

ColumnSum(rows, Col(_)) ==
  LET f[i \in 0..Len(rows)] == IF i = 0 THEN 0 ELSE f[i - 1] + Col(rows[i])
  IN  f[Len(rows)]

SummaryIsRatioOfSums(r, rows) ==
  LET ColImpr(x) == x.Impr
      ColClicks(x) == x.Clicks
      ColCost(x) == x.Cost
      ColConv(x) == x.Conversions
      ColRev(x) == x.Revenue
      impr   == ColumnSum(rows, ColImpr)
      clicks == ColumnSum(rows, ColClicks)
      cost   == ColumnSum(rows, ColCost)
      conv   == ColumnSum(rows, ColConv)
      rev    == ColumnSum(rows, ColRev)
  IN  /\ r.impressions = impr /\ r.clicks = clicks /\ r.cost = cost
      /\ r.conversions = conv /\ r.revenue = rev
      /\ (cost > 0 => r.roas[1] * cost = rev * r.roas[2])
      /\ (conv > 0 => r.cpa[1] * conv = cost * r.cpa[2])
      /\ (conv > 0 => r.clv[1] * conv = rev * r.clv[2])
      /\ (clicks > 0 => r.convRate[1] * clicks = conv * r.convRate[2])
      /\ (clicks > 0 => r.cpc[1] * clicks = cost * r.cpc[2])
      /\ (impr > 0 => r.ctr[1] * impr = clicks * r.ctr[2])

\* the rows of a dataset that fall into the bucket with the given key
BucketRows(rows, key, unit) ==
  LET T(row) == row.processedDate # NoDate /\ PeriodKey(row.processedDate, unit) = key
  IN  SelectSeq(rows, T)

\* C2: the Summary Row of a group has the sums of the records' counters and
\* each rate is the quotient of those sums, not the mean of the per-record
\* rates; the two example records give the month bucket 2024-3 cost 150,
\* revenue 150, ROAS 1, CPA 30, conversion rate 5/30 and CTR 30/300.
C2_SummaryRatesFromSums ==
  /\ (called = "calculateKpiSummary" => SummaryIsRatioOfSums(summary, data))
  /\ (called = "generateTrendData" =>
        \A i \in 1..Len(trend) :
          SummaryIsRatioOfSums(trend[i], BucketRows(data, trend[i].period, timeUnit)))
  /\ (called = "generateTrendData" /\ data = ExampleData /\ timeUnit = "Month" =>
        /\ Len(trend) = 1
        /\ trend[1].period = <<"2", "0", "2", "4", "-", "3">>
        /\ trend[1].cost = 150 /\ trend[1].revenue = 150
        /\ trend[1].roas = <<1, 1>> /\ trend[1].cpa = <<30, 1>>
        /\ trend[1].convRate = <<1, 6>> /\ trend[1].ctr = <<1, 10>>)

\* the month bucket of the example records has been computed: the mean of
\* the two records' ROAS is 3/4, the ROAS of the bucket is 1
C2_Witness ==
  /\ called = "generateTrendData" /\ data = ExampleData /\ timeUnit = "Month"
  /\ Len(trend) = 1 /\ trend[1].roas = <<1, 1>>
  /\ calculateMetrics(data)[1].ROAS = <<3, 2>> /\ calculateMetrics(data)[2].ROAS = Zero

-----------------------------------------------------------------------------
(* Date-range filter                                                       *)

\* the day number a bound "YYYY-MM-DD" names
BoundDay(s) ==
  DaysFromCivil(parseInt(SplitDash(s)[1]), parseInt(SplitDash(s)[2]), parseInt(SplitDash(s)[3]))

DatedInRange(row, range) ==
  /\ row.processedDate # NoDate
  /\ (range.startDate # <<>> => row.processedDate \div 24 >= BoundDay(range.startDate))
  /\ (range.endDate # <<>> => row.processedDate \div 24 <= BoundDay(range.endDate))

\* C10: filterByDateRange keeps exactly the dated records whose calendar day
\* lies between the start day and the end day, both included; a bound that
\* is empty does not restrict; with both bounds empty the input is returned
\* unchanged.
C10_DateRangeInclusive ==
  called = "filterByDateRange" =>
    LET Dated(row) == row.processedDate # NoDate
        InRange(row) == DatedInRange(row, dateRange)
    IN  /\ SelectSeq(ranged, Dated) = SelectSeq(data, InRange)
        /\ (dateRange = NoRange => ranged = data)

\* a record in the last hour of the end day is kept while another is dropped
C10_Witness ==
  /\ called = "filterByDateRange"
  /\ dateRange.startDate # <<>> /\ dateRange.endDate # <<>>
  /\ Len(ranged) = 1 /\ Len(data) = 2
  /\ ranged[1].processedDate = BoundDay(dateRange.endDate) * 24 + 23
  /\ \E i \in 1..2 : data[i].processedDate \div 24 = BoundDay(dateRange.endDate) + 1

-----------------------------------------------------------------------------
(* The comparison table of the last render against the two series          *)

\* the metric the rendered table shows
ShownMetric == IF isAvailableMetric(trendData, tableMetric) THEN tableMetric ELSE "revenue"

\* the values stored under a period key in the date-filtered or the complete series
ValuesOfKey(key) ==
  { MetricValue(trendData[i], ShownMetric) :
      i \in { k \in 1..Len(trendData) : trendData[k].period = key } }
    \cup { MetricValue(completeTrendData[i], ShownMetric) :
      i \in { k \in 1..Len(completeTrendData) : completeTrendData[k].period = key } }

\* (current - previous) / previous * 100, and 0 for a previous value of 0
PercentChange(current, previous) ==
  IF previous = Zero THEN Zero
  ELSE FracTimes(FracDiv(FracSub(current, previous), previous), 100)

\* the value found for a key: the date-filtered series first, then the complete one
TwoTierValue(key) ==
  IF FindPeriod(trendData, key) # Null
    THEN Some(MetricValue(FindPeriod(trendData, key)[1], ShownMetric))
  ELSE IF FindPeriod(completeTrendData, key) # Null
    THEN Some(MetricValue(FindPeriod(completeTrendData, key)[1], ShownMetric))
  ELSE Null

RowPreviousPresence(row) ==
  LET key == PreviousPeriodKey(row.period, timeUnit, tz)
  IN  /\ (row.previous = Null) <=> (ValuesOfKey(key) = {})
      /\ (row.change = Null) <=> (ValuesOfKey(key) = {})
      /\ ValuesOfKey(key) # {} =>
           /\ row.previous # Null /\ row.previous[1] \in ValuesOfKey(key)
           /\ row.change = Some(PercentChange(row.current, row.previous[1]))

\* C6: in every comparison row the previous value and the percent change are
\* null exactly when no record with the row's predecessor key exists in the
\* date-filtered or the complete series; otherwise the previous value is that
\* record's value and the change is 0 for a previous value of 0 and
\* (current - previous) / previous * 100 otherwise; a gap gives null
C6_PreviousNullExactlyWhenNoPredecessor ==
  \A j \in 1..Len(comparisonTable) : RowPreviousPresence(comparisonTable[j])

\* the part of C6 that does not depend on a gap: a row whose predecessor key
\* has a record shows that record's value and the change computed from it
PreviousOfExistingPredecessor ==
  \A j \in 1..Len(comparisonTable) :
    LET row == comparisonTable[j]
        key == PreviousPeriodKey(row.period, timeUnit, tz)
    IN  ValuesOfKey(key) # {} =>
          /\ row.previous # Null /\ row.previous[1] \in ValuesOfKey(key)
          /\ row.change = Some(PercentChange(row.current, row.previous[1]))

\* C7: the previous value of a row is the date-filtered series' value for the
\* predecessor key when the key is present there, and the complete series'
\* value when it is absent there and present in the complete series
C7_PreviousFilteredThenComplete ==
  \A j \in 1..Len(comparisonTable) :
    LET key == PreviousPeriodKey(comparisonTable[j].period, timeUnit, tz)
    IN  TwoTierValue(key) # Null => comparisonTable[j].previous = TwoTierValue(key)

\* C7 for rows whose dates are local midnights
PreviousFilteredThenCompleteAtLocalMidnight ==
  sheet \in SheetsOf(LocalRecords) => C7_PreviousFilteredThenComplete

\* the key with the identical sub-period component and the year before
SamePeriodLastYearKey(period) ==
  NumToString(parseInt(Part(period, 1)) - 1) \o SubSeq(period, Len(Part(period, 1)) + 1, Len(period))

\* C8: for Day, Week, Month and Quarter the same-period-last-year value of a
\* row is the value of the bucket with the identical sub-period and the year
\* before, date-filtered series first and then the complete series, and null
\* when neither has that key (week 53 after a 52-week year, 29 February)
C8_SamePeriodLastYear ==
  timeUnit # "Year" =>
    \A j \in 1..Len(comparisonTable) :
      comparisonTable[j].previousYear
        = TwoTierValue(SamePeriodLastYearKey(comparisonTable[j].period))

\* C8 for Week, Month and Quarter
SamePeriodLastYearOfWeekMonthQuarter ==
  timeUnit \in {"Week", "Month", "Quarter"} => C8_SamePeriodLastYear

\* C9: the comparison table has exactly one row for each bucket of the
\* date-filtered series, whatever the number of buckets (also for one bucket)
C9_OneRowPerBucket ==
  /\ Len(comparisonTable) = Len(trendData)
  /\ \A i \in 1..Len(trendData) :
       \E j \in 1..Len(comparisonTable) : comparisonTable[j].period = trendData[i].period

\* C9 for the series the table is rendered from when it has two buckets or more
OneRowPerBucketOfTwoOrMore ==
  Len(filteredTrendData(trendData, dateRange, tz)) >= 2 =>
    /\ Len(comparisonTable) = Len(filteredTrendData(trendData, dateRange, tz))
    /\ \A i \in 1..Len(filteredTrendData(trendData, dateRange, tz)) :
         \E j \in 1..Len(comparisonTable) :
           comparisonTable[j].period = filteredTrendData(trendData, dateRange, tz)[i].period

\* ---- C11 ----------------------------------------------------------------
\* a category lets a value through when nothing is selected in it or the very
\* value is selected
CategoryAllows(selected, value) == selected = {} \/ value \in selected

RowSelected(row, sel) ==
  /\ CategoryAllows(sel.accounts, row.Account)
  /\ CategoryAllows(sel.languages, row.Language)
  /\ CategoryAllows(sel.campaignTypes, row.CampaignType)
  /\ CategoryAllows(sel.domains, row.Domain)

\* the selected rows of rows, in the order of rows
RECURSIVE SelectedInOrder(_, _)
SelectedInOrder(rows, sel) ==
  IF rows = <<>> THEN <<>>
  ELSE (IF RowSelected(Head(rows), sel) THEN <<Head(rows)>> ELSE <<>>)
       \o SelectedInOrder(Tail(rows), sel)

\* C11: filterData keeps a record exactly when every one of the four
\* categories has an empty selection or a selection containing the record's
\* value (exact match), and the kept records stay in input order
C11_FilterKeepsExactlyAllowedRows ==
  called = "filterData" => filteredRows = SelectedInOrder(data, selection)

\* two different records, a selection restricting two categories and leaving
\* two open: the first record is dropped and the second kept
C11_Witness ==
  /\ called = "filterData"
  /\ Len(data) = 2
  /\ data[1] # data[2]
  /\ selection.accounts # {} /\ selection.domains # {}
  /\ selection.languages = {} /\ selection.campaignTypes = {}
  /\ filteredRows = <<data[2]>>

\* ---- C14 ----------------------------------------------------------------
\* the year, month and day a date string states, read from its form: the
\* source-specific dash form, YYYY/M/D or D/M/YYYY; <<>> for any other string
StatedDate(s, source) ==
  IF source = GOOGLE_ADS /\ DigitGroups(SplitDash(s), {4}, {2}, {2})
    THEN <<NumberOf(SplitDash(s)[1]), NumberOf(SplitDash(s)[2]), NumberOf(SplitDash(s)[3])>>
  ELSE IF source = MICROSOFT_ADS /\ DigitGroups(SplitDash(s), {2}, {2}, {4})
    THEN <<NumberOf(SplitDash(s)[3]), NumberOf(SplitDash(s)[2]), NumberOf(SplitDash(s)[1])>>
  ELSE IF DigitGroups(SplitSlash(s), {4}, {1, 2}, {1, 2})
    THEN <<NumberOf(SplitSlash(s)[1]), NumberOf(SplitSlash(s)[2]), NumberOf(SplitSlash(s)[3])>>
  ELSE IF DigitGroups(SplitSlash(s), {1, 2}, {1, 2}, {4})
    THEN <<NumberOf(SplitSlash(s)[3]), NumberOf(SplitSlash(s)[2]), NumberOf(SplitSlash(s)[1])>>
  ELSE <<>>

\* the local calendar date of t
CalendarDate(t) == <<getFullYear(t), getMonth(t) + 1, getDate(t)>>

\* C14: for a string of an accepted form (source-specific dash form, slash
\* Y/M/D, slash D/M/Y) parseDate never returns a date whose year, month or
\* day differs from the components written in the string: an impossible
\* date such as 30 February gives null, it is not rolled over
C14_ParsedDateIsStatedDate ==
  (called = "parseDate" /\ StatedDate(trim(dateString), dataSource) # <<>> /\ parsedDate # NoDate)
    => CalendarDate(parsedDate) = StatedDate(trim(dateString), dataSource)

\* the same for the source-specific dash form on an engine whose Date parser
\* is strict: the round-trip validation makes it hold
DashFormOnStrictEngine ==
  (/\ called = "parseDate"
   /\ ~lenientEngine
   /\ DigitGroups(SplitDash(trim(dateString)), {2, 4}, {2}, {2, 4})
   /\ StatedDate(trim(dateString), dataSource) # <<>>
   /\ parsedDate # NoDate)
    => CalendarDate(parsedDate) = StatedDate(trim(dateString), dataSource)

\* ---- C13 ----------------------------------------------------------------
\* C13: every row of the output of processGoogleSheetData has a non-empty
\* Campaign and a defined processedDate (a row without a campaign name or
\* without a successfully parsed date is dropped)
C13_RetainedRowsHaveCampaignAndParsedDate ==
  called # "" =>
    \A i \in 1..Len(mappedRows) :
      mappedRows[i].Campaign # <<>> /\ mappedRows[i].processedDate # NoDate

\* what the filter of processGoogleSheetData does establish: a non-empty
\* Campaign and a non-empty Date text
RetainedRowsHaveCampaignAndDateText ==
  called # "" =>
    \A i \in 1..Len(mappedRows) : mappedRows[i].Campaign # <<>> /\ mappedRows[i].Date # <<>>

\* ---- C15 ----------------------------------------------------------------
DateHeader == <<"D", "a", "t", "e">>

\* the sheet is one row with a campaign name whose Date cell is the valid
\* calendar date t in the format of the source
OneRowDated(t) ==
  /\ Len(sourceRows) = 1
  /\ RowCell(sourceRows[1], DateHeader) = SourceFormat(t, dataSource)
  /\ Len(mappedRows) = 1

\* the Day series of the sheet is the single bucket of the calendar date t,
\* from a processedDate that is the local midnight the regex branch builds
DayBucketOf(t) ==
  /\ Len(trend) = 1
  /\ trend[1].period = FormatYMD(t)
  /\ mappedRows[1].processedDate = t

\* C15: for every valid calendar date, a Source A row carrying it as
\* YYYY-MM-DD and a Source B row carrying it as DD-MM-YYYY both yield a
\* record whose Day bucket key is YYYY-MM-DD of that date, the date being
\* the one the source-specific regex with round-trip validation builds
C15_DayKeyIsSourceDate ==
  called = "generateTrendData" =>
    \A t \in SheetDays : OneRowDated(t) => DayBucketOf(t)

\* the same for Source A alone
DayKeyIsSourceDateForSourceA ==
  (called = "generateTrendData" /\ dataSource = GOOGLE_ADS) =>
    \A t \in SheetDays : OneRowDated(t) => DayBucketOf(t)

\* for Source B in UTC and east of it, the Day key is still the date
DayKeyOfSourceBEastOfUTC ==
  (called = "generateTrendData" /\ dataSource = MICROSOFT_ADS /\ tz >= 0) =>
    \A t \in SheetDays : OneRowDated(t) => (Len(trend) = 1 /\ trend[1].period = FormatYMD(t))

\* ---- C17 ----------------------------------------------------------------
\* the headers of the pre-computed metric columns of a source
MetricColumns(source) ==
  IF source = GOOGLE_ADS
    THEN {<<"C", "T", "R">>,
          <<"C", "P", "C">>,
          <<"C", "P", "A">>,
          <<"C", "o", "n", "v", ".", " ", "R", "a", "t", "e">>,
          <<"R", "O", "A", "S">>,
          <<"P", "r", "o", "f", "i", "t">>,
          <<"C", "L", "V">>}
    ELSE {<<"C", "T", "R">>,
          <<"A", "v", "e", "r", "a", "g", "e", " ", "C", "o", "s", "t", "-", "p", "e", "r", "-", "C", "l", "i", "c", "k", " ", "(", "C", "P", "C", ")">>,
          <<"C", "o", "s", "t", " ", "p", "e", "r", " ", "a", "c", "q", "u", "i", "s", "i", "t", "i", "o", "n", " ", "(", "C", "P", "A", ")">>,
          <<"C", "o", "n", "v", "e", "r", "s", "i", "o", "n", " ", "R", "a", "t", "e">>,
          <<"R", "O", "A", "S">>,
          <<"P", "r", "o", "f", "i", "t">>,
          <<"R", "e", "v", "e", "n", "u", "e", " ", "P", "e", "r", " ", "C", "o", "n", "v", "e", "r", "s", "i", "o", "n">>}

\* two source rows with the same columns that agree in every cell outside
\* the pre-computed metric columns
AgreeOutsideMetricColumns(r1, r2, source) ==
  /\ Len(r1) = Len(r2)
  /\ \A i \in 1..Len(r1) :
       /\ r1[i][1] = r2[i][1]
       /\ r1[i][1] \notin MetricColumns(source) => r1[i][2] = r2[i][2]

RawFields(row) ==
  <<row.Account, row.Language, row.CampaignType, row.Domain, row.processedDate,
    row.Impr, row.Clicks, row.Cost, row.Conversions, row.Revenue>>

SameRawFields(rows1, rows2) ==
  /\ Len(rows1) = Len(rows2)
  /\ \A i \in 1..Len(rows1) : RawFields(rows1[i]) = RawFields(rows2[i])

\* C16: calculateMetrics is idempotent (applied to its own result it returns
\* that result) and leaves every raw counter and dimension field of the
\* input rows unchanged
C16_CalculateMetricsIdempotent ==
  /\ called \in {"calculateMetrics", "calculateMetrics twice"} => SameRawFields(metricRows, data)
  /\ called = "calculateMetrics twice" => recalculated = metricRows

\* a second application to rows whose rates are not all zero
C16_Witness ==
  /\ called = "calculateMetrics twice"
  /\ Len(recalculated) = 2
  /\ recalculated[1].ROAS # Zero
  /\ recalculated[1].CTR # Zero
  /\ recalculated[1].Cost > 0

-----------------------------------------------------------------------------
(* The fetch protocol of the DataProvider                                   *)

\* some fetch has failed in transport or in the CSV parser
SomeFetchFailed == \E i \in 1..Len(fetches) : fetches[i].status = "failed"

\* C19: when a fetch or its CSV parse fails, the handler sets error to a
\* message and loading to false, leaves rawData as it is, and starts no
\* fetch; a fetch starts only on the refresh tick, on refreshData or on a
\* switch of the data source.
C19_FailureSetsErrorKeepsDataStartsNoFetch ==
  [][ /\ (\E i \in 1..Len(fetches) : FetchFailed(i) \/ ParseFailed(i)) =>
           /\ error' # Null
           /\ loading' = FALSE
           /\ rawData' = rawData
           /\ Len(fetches') = Len(fetches)
           /\ \A j \in 1..Len(fetches) : fetches'[j].status = "pending" => fetches[j].status = "pending"
      /\ Len(fetches') > Len(fetches) =>
           \/ RefreshTick
           \/ RefreshData
           \/ \E source \in DataSourceType : SwitchDataSource(source) ]_vars

\* a fetch has failed while rows of an earlier fetch are held
C19_Witness ==
  /\ SomeFetchFailed
  /\ error # Null
  /\ ~loading
  /\ rawData # <<>>
  /\ Len(fetches) > 1

LastFetch == fetches[Len(fetches)]

AllFetchesCompleted == \A i \in 1..Len(fetches) : fetches[i].status # "pending"

\* C18: once all fetches have completed, rawData and filterOptions are those
\* of the most recently started fetch (if it delivered rows) and come from
\* activeDataSource, whatever the order of the completions.
C18_LastStartedFetchWins ==
  (AllFetchesCompleted /\ LastFetch.status = "done") =>
    /\ rawData = MappedData(LastFetch.source, LastFetch.response)
    /\ filterOptions = extractFilterOptions(MappedData(LastFetch.source, LastFetch.response))
    /\ LastFetch.source = activeDataSource

\* the most recently started fetch is one of activeDataSource
LastStartedFetchIsOfActiveSource == LastFetch.source = activeDataSource

\* rawData and filterOptions are always those of one completed fetch
RawDataIsOfSomeCompletedFetch ==
  rawData # <<>> =>
    \E i \in 1..Len(fetches) :
      /\ fetches[i].status = "done"
      /\ rawData = MappedData(fetches[i].source, fetches[i].response)
      /\ filterOptions = extractFilterOptions(rawData)

\* filterByDateRange(filterData(calculateMetrics(raw), filters), range)
PipelineData(raw, filters, range) ==
  filterByDateRange(filterData(calculateMetrics(raw), filters), range)

\* the four published results are the pipeline functions applied to raw and
\* the current settings
ResultsAreOf(raw) ==
  /\ kpiSummary = Some(calculateKpiSummary(PipelineData(raw, selectedFilters, dateRange)))
  /\ trendData = generateTrendData(PipelineData(raw, selectedFilters, dateRange), timeUnit)
  /\ completeTrendData = generateTrendData(filterData(calculateMetrics(raw), selectedFilters), timeUnit)
  /\ comparisonData = generateComparisonData(PipelineData(raw, selectedFilters, dateRange), compareBy)

\* C20: once a fetch has delivered, after every handler and its
\* recomputation kpiSummary, trendData, completeTrendData and comparisonData
\* are the pipeline functions applied to the current rawData and settings,
\* also when rawData has no rows.
C20_ResultsFollowRawDataAndSettings ==
  (\E i \in 1..Len(fetches) : fetches[i].status = "done") => ResultsAreOf(rawData)

\* the same for rawData that has rows
ResultsFollowNonEmptyRawData == rawData # <<>> => ResultsAreOf(rawData)

HasParsedDate(row) == row.processedDate # NoDate

DatedRows(rows) == SelectSeq(rows, HasParsedDate)

\* C12: a row whose date does not parse contributes to no published result:
\* filterOptions, kpiSummary, trendData, completeTrendData and comparisonData
\* are what the rows with a parsed date alone would give, for every selection
\* and date range.
C12_UndatedRowsContributeNowhere ==
  rawData # <<>> =>
    /\ filterOptions = extractFilterOptions(DatedRows(rawData))
    /\ ResultsAreOf(DatedRows(rawData))

\* the same for the two trend series only
UndatedRowsInNoTimeBucket ==
  rawData # <<>> =>
    /\ trendData = generateTrendData(PipelineData(DatedRows(rawData), selectedFilters, dateRange), timeUnit)
    /\ completeTrendData =
         generateTrendData(filterData(calculateMetrics(DatedRows(rawData)), selectedFilters), timeUnit)

\* the same for the summary and the dimension rows under a date range with a bound
UndatedRowsOutsideEveryBoundedRange ==
  (rawData # <<>> /\ dateRange # NoRange) => ResultsAreOf(DatedRows(rawData))

-----------------------------------------------------------------------------
(* The number parsers                                                       *)

NumericSymbols == {"€", "$", ",", "%"}

WithoutSymbols(text) ==
  LET Kept(c) == c \notin NumericSymbols
  IN  SelectSeq(text, Kept)

\* the text spells a decimal number: an optional sign, digits, and at most
\* one decimal point among or around them
SpellsNumber(text) ==
  LET body == IF text # <<>> /\ Head(text) \in {"-", "+"} THEN Tail(text) ELSE text
  IN  /\ \E i \in 1..Len(body) : IsDigit(body[i])
      /\ \A i \in 1..Len(body) : IsDigit(body[i]) \/ body[i] = "."
      /\ Cardinality({i \in 1..Len(body) : body[i] = "."}) <= 1

\* the text is no number once the symbols the parsers strip are removed
IsGarbage(text) == text # <<>> /\ ~SpellsNumber(trim(WithoutSymbols(text)))

\* C21: parseNumericValue and parsePercentage return a finite number for every
\* string, and exactly 0 for the empty string, for "--" (parsePercentage) and
\* for every string that is no number once the symbols are removed.
C21_ParsersAreTotalAndGarbageIsZero ==
  /\ numericValue # <<>> =>
       /\ numericValue[1].kind = "finite"
       /\ (numericText = <<>> \/ IsGarbage(numericText)) => numericValue[1] = Finite(Zero)
  /\ percentage # <<>> =>
       /\ percentage[1].kind = "finite"
       /\ (numericText = <<>> \/ numericText = <<"-", "-">> \/ IsGarbage(numericText))
            => percentage[1] = Finite(Zero)

\* the parsers never return NaN, and return 0 for the empty string, for "--"
\* and for every string that starts, after the symbols and leading blanks are
\* removed, with neither a number nor a signed Infinity
ParsersReturnNoNaNAndZeroWithoutNumericPrefix ==
  LET NoPrefix(text) == parseFloatNumber(WithoutSymbols(text)).kind = "NaN"
  IN  /\ numericValue # <<>> =>
           /\ numericValue[1].kind # "NaN"
           /\ (numericText = <<>> \/ NoPrefix(numericText)) => numericValue[1] = Finite(Zero)
      /\ percentage # <<>> =>
           /\ percentage[1].kind # "NaN"
           /\ (numericText = <<>> \/ numericText = <<"-", "-">> \/ NoPrefix(numericText))
                => percentage[1] = Finite(Zero)

\* on cells without sign and decimal point the counter read by the sheet
\* mapping is the number parseNumericValue returns
CounterIsParsedNumber ==
  (numericValue # <<>> /\ \A i \in 1..Len(numericText) : numericText[i] \notin {"-", "+", ".", "I"})
    => numericValue[1] = Finite(Num(parseNumericValue(numericText)))

-----------------------------------------------------------------------------
(* The Source B sheet                                                       *)

SheetProcessed == called = "processGoogleSheetData"

\* the two rows of the sheet have the same cells, and headers that are equal
\* once trimmed and lower-cased
SameRowUpToHeaderSpelling ==
  /\ Len(sourceRows) = 2
  /\ Len(sourceRows[1]) = Len(sourceRows[2])
  /\ \A k \in 1..Len(sourceRows[1]) :
       /\ sourceRows[1][k][2] = sourceRows[2][k][2]
       /\ toLowerCase(trim(sourceRows[1][k][1])) = toLowerCase(trim(sourceRows[2][k][1]))
  /\ sourceRows[1] # sourceRows[2]

\* C22: two Source B rows with the same cells whose headers differ only in
\* letter case or surrounding blanks map to the same record, domain, language
\* and account name included.
C22_HeaderSpellingDoesNotChangeRecord ==
  (SheetProcessed /\ SameRowUpToHeaderSpelling) =>
    /\ Len(mappedRows) = 2
    /\ mappedRows[1] = mappedRows[2]

\* the same when the Account column is spelled Account in both rows
HeaderSpellingOutsideAccountDoesNotChangeRecord ==
  (SheetProcessed /\ SameRowUpToHeaderSpelling
     /\ \A r \in 1..2 : \E k \in 1..Len(sourceRows[r]) : sourceRows[r][k][1] = AccountHeader) =>
    /\ Len(mappedRows) = 2
    /\ mappedRows[1] = mappedRows[2]

\* the account cell of a one-row sheet
AccountCell == RowCell(sourceRows[1], AccountHeader)

\* the index of the last " (" of a string that ends with ")", 0 if none
TrailingIdIndex(account) ==
  IF account # <<>> /\ account[Len(account)] = ")" /\ includes(account, OpenParen)
    THEN CHOOSE i \in 1..(Len(account) - 1) :
           /\ SubSeq(account, i, i + 1) = OpenParen
           /\ \A j \in (i + 1)..(Len(account) - 1) : SubSeq(account, j, j + 1) # OpenParen
    ELSE 0

\* the account without its trailing parenthesized identifier
WithoutTrailingId(account) ==
  IF TrailingIdIndex(account) = 0 THEN trim(account)
  ELSE trim(SubSeq(account, 1, TrailingIdIndex(account) - 1))

\* the second of the segments that " - " separates
SecondSegment(name) == BeforeFirst(AfterFirst(name, SpacedDash), SpacedDash)

\* C24: with the trailing parenthesized identifier removed, a name containing
\* a brand gets the brand's domain, a name CV.xx is its own domain with
\* language XX, every name containing " - " gets its second segment as
\* language, and the account name stored is the string before the first " (".
C24_AccountDecomposition ==
  (SheetProcessed /\ Len(sourceRows) = 1 /\ Len(mappedRows) = 1) =>
    /\ includes(WithoutTrailingId(AccountCell), CVwizard)
         => mappedRows[1].Domain = CVwizard \o <<".", "c", "o", "m">>
    /\ (includes(WithoutTrailingId(AccountCell), Jobseeker)
          /\ ~includes(WithoutTrailingId(AccountCell), CVwizard))
         => mappedRows[1].Domain = Jobseeker \o <<".", "c", "o", "m">>
    /\ IsCountryDomain(WithoutTrailingId(AccountCell))
         => /\ mappedRows[1].Domain = WithoutTrailingId(AccountCell)
            /\ mappedRows[1].Language = toUpperCase(SubSeq(WithoutTrailingId(AccountCell), 4, 5))
    /\ includes(WithoutTrailingId(AccountCell), SpacedDash)
         => mappedRows[1].Language = trim(SecondSegment(WithoutTrailingId(AccountCell)))
    /\ mappedRows[1].Account = BeforeFirst(AccountCell, OpenParen)

\* the same with the separator rule for names containing a brand only, and
\* for accounts with at most one " ("
AccountDecompositionOfBrandNames ==
  (SheetProcessed /\ Len(sourceRows) = 1 /\ Len(mappedRows) = 1
     /\ (includes(AccountCell, OpenParen) => ~includes(AfterFirst(AccountCell, OpenParen), OpenParen))) =>
    /\ includes(WithoutTrailingId(AccountCell), CVwizard)
         => mappedRows[1].Domain = CVwizard \o <<".", "c", "o", "m">>
    /\ (includes(WithoutTrailingId(AccountCell), Jobseeker)
          /\ ~includes(WithoutTrailingId(AccountCell), CVwizard))
         => mappedRows[1].Domain = Jobseeker \o <<".", "c", "o", "m">>
    /\ IsCountryDomain(WithoutTrailingId(AccountCell))
         => /\ mappedRows[1].Domain = WithoutTrailingId(AccountCell)
            /\ mappedRows[1].Language = toUpperCase(SubSeq(WithoutTrailingId(AccountCell), 4, 5))
    /\ (includes(WithoutTrailingId(AccountCell), SpacedDash)
          /\ (includes(WithoutTrailingId(AccountCell), CVwizard)
                \/ includes(WithoutTrailingId(AccountCell), Jobseeker)))
         => mappedRows[1].Language = trim(SecondSegment(WithoutTrailingId(AccountCell)))
    /\ mappedRows[1].Account = BeforeFirst(AccountCell, OpenParen)

-----------------------------------------------------------------------------
(* The order of the series and of the comparison table                      *)

\* the position of a period key in time: year, then sub-period, then day,
\* each read as a number
KeyNumber(key, unit) ==
  IF unit = "Day"
    THEN NumberOf(Part(key, 1)) * 10000 + NumberOf(Part(key, 2)) * 100 + NumberOf(Part(key, 3))
  ELSE IF unit \in {"Week", "Month"}
    THEN NumberOf(Part(key, 1)) * 100 + NumberOf(Part(key, 2))
  ELSE IF unit = "Quarter"
    THEN NumberOf(Part(key, 1)) * 10 + NumberOf(Tail(Part(key, 2)))
  ELSE NumberOf(key)

StrictlyAscending(items, unit) ==
  \A i \in 1..(Len(items) - 1) : KeyNumber(items[i].period, unit) < KeyNumber(items[i + 1].period, unit)

StrictlyDescending(items, unit) ==
  \A i \in 1..(Len(items) - 1) : KeyNumber(items[i].period, unit) > KeyNumber(items[i + 1].period, unit)

\* the bucket keys of the dated rows
BucketKeys(rows, unit) ==
  { PeriodKey(rows[i].processedDate, unit) : i \in { j \in 1..Len(rows) : rows[j].processedDate # NoDate } }

PeriodsOf(items) == { items[i].period : i \in 1..Len(items) }

\* C23: for every granularity the series has exactly one row per distinct
\* bucket key, in strictly ascending order of time, and the comparison table
\* lists its rows in strictly descending order of time, year and sub-period
\* compared as numbers.
C23_SeriesAscendingTableDescending ==
  /\ StrictlyAscending(trendData, timeUnit)
  /\ StrictlyAscending(completeTrendData, timeUnit)
  /\ PeriodsOf(trendData) = BucketKeys(processedData, timeUnit)
  /\ Len(trendData) = Cardinality(BucketKeys(processedData, timeUnit))
  /\ StrictlyDescending(comparisonTable, timeUnit)

\* a Month series in which 2023-3 precedes 2023-12 and 2023-12 precedes
\* 2024-1, with its table
C23_Witness ==
  /\ timeUnit = "Month"
  /\ \E i \in 1..(Len(trendData) - 2) :
       /\ trendData[i].period = <<"2", "0", "2", "3", "-", "3">>
       /\ trendData[i + 1].period = <<"2", "0", "2", "3", "-", "1", "2">>
       /\ trendData[i + 2].period = <<"2", "0", "2", "4", "-", "1">>
  /\ Len(comparisonTable) = Len(trendData)

-----------------------------------------------------------------------------
(* switchDataSource                                                         *)

\* C25: switchDataSource with the active source changes nothing and starts no
\* fetch; with another source it sets activeDataSource, empties the four
\* selection lists, leaves granularity, comparison dimension and date range
\* as they are and starts exactly one fetch, of the new source; the periodic
\* refresh fetches the active source only.
C25_SwitchResetsSelectionAndStartsOneFetch ==
  [][ /\ \A source \in DataSourceType :
           SwitchDataSource(source) =>
             IF source = activeDataSource
               THEN UNCHANGED vars
               ELSE /\ activeDataSource' = source
                    /\ selectedFilters' = NoFilters
                    /\ timeUnit' = timeUnit
                    /\ compareBy' = compareBy
                    /\ dateRange' = dateRange
                    /\ fetches' = Append(fetches, Fetch(source, "pending", 0))
      /\ RefreshTick =>
           /\ fetches' = Append(fetches, Fetch(activeDataSource, "pending", 0))
           /\ activeDataSource' = activeDataSource ]_vars

\* the source has been switched while rows were held, a selection had been
\* made and the settings were not the initial ones
C25_Witness ==
  /\ activeDataSource = MICROSOFT_ADS
  /\ fetches[Len(fetches)] = Fetch(MICROSOFT_ADS, "pending", 0)
  /\ \A i \in 1..(Len(fetches) - 1) : fetches[i].source = GOOGLE_ADS
  /\ selectedFilters = NoFilters
  /\ rawData # <<>>
  /\ timeUnit = "Day"
  /\ compareBy = "Campaign type"
  /\ dateRange = NoRange

-----------------------------------------------------------------------------
(* The series the trends view displays against the filtered records         *)

\* the series TrendsDashboard displays and compares
DisplayedSeries == filteredTrendData(trendData, dateRange, tz)

RECURSIVE SumOf(_, _)
SumOf(items, field) ==
  IF items = <<>> THEN 0 ELSE items[1][field] + SumOf(Tail(items), field)

\* the buckets of the displayed series that carry the key of a row
BucketsOf(row) ==
  { i \in 1..Len(DisplayedSeries) : DisplayedSeries[i].period = PeriodKey(row.processedDate, timeUnit) }

\* C26: every record that passes the dimension and the date range filter is
\* counted in exactly one bucket of the series the trends view displays, for
\* every granularity, a record of the last days of December in ISO week 1 of
\* the next year included when the range ends on 31 December.
C26_EveryFilteredRecordInOneDisplayedBucket ==
  /\ \A i \in 1..Len(processedData) : Cardinality(BucketsOf(processedData[i])) = 1
  /\ SumOf(DisplayedSeries, "impressions") = SumOf(processedData, "Impr")
  /\ SumOf(DisplayedSeries, "revenue") = SumOf(processedData, "Revenue")

\* the same of the series the processing effect stores
EveryFilteredRecordInOneStoredBucket ==
  /\ \A i \in 1..Len(processedData) :
       Cardinality({ j \in 1..Len(trendData) :
                       trendData[j].period = PeriodKey(processedData[i].processedDate, timeUnit) }) = 1
  /\ SumOf(trendData, "impressions") = SumOf(processedData, "Impr")
  /\ SumOf(trendData, "revenue") = SumOf(processedData, "Revenue")

\* the Week series of 23 and 30 December under a range that ends on 31 December
YearEndWeekSeries ==
  /\ timeUnit = "Week"
  /\ dateRange.endDate = Today
  /\ Len(processedData) = Len(YearEndRecords)
  /\ Len(trendData) = Len(YearEndRecords)
  /\ \E i \in 1..Len(processedData) :
       PeriodKey(processedData[i].processedDate, "Month") = <<"2", "0", "2", "4", "-", "1", "2">>

-----------------------------------------------------------------------------
(* The error and loading flags of the DataProvider                          *)

\* C27: once a fetch has failed, error stays non-null until a later fetch
\* succeeds; a change of the filters, the granularity, the comparison
\* dimension or the date range does not clear it.
C27_ErrorStaysUntilFetchSucceeds ==
  [][ (error # Null /\ error' = Null) =>
        \E i \in 1..Len(fetches) : \E r \in 1..Len(Responses(fetches[i].source)) : FetchSucceeded(i, r) ]_vars

\* the error is cleared by the processing effect only, and only while rows
\* are held
ErrorClearedByProcessingEffectOnly ==
  [][ (error # Null /\ error' = Null) =>
        /\ rawData' # <<>>
        /\ \/ \E i \in 1..Len(fetches) : \E r \in 1..Len(Responses(fetches[i].source)) : FetchSucceeded(i, r)
           \/ \E filters \in FetchFilterChoices : SelectFilters(filters)
           \/ \E unit \in FetchTimeUnits : SelectTimeUnit(unit)
           \/ \E by \in FetchCompareChoices : SelectCompareBy(by)
           \/ \E range \in FetchDateRanges : SelectDateRange(range)
           \/ \E source \in DataSourceType : SwitchDataSource(source) ]_vars

\* a fetch has failed while rows were held, and the error is gone although no
\* fetch has succeeded since
ErrorClearedWithoutFetch ==
  /\ error = Null
  /\ rawData # <<>>
  /\ Len(fetches) > 1
  /\ fetches[Len(fetches)].status = "failed"
  /\ \A i \in 1..(Len(fetches) - 1) : fetches[i].status = "done"

SomeFetchPending == \E i \in 1..Len(fetches) : fetches[i].status = "pending"

\* C28: loading is true in every state in which at least one fetch is in
\* flight, also when a manual and a periodic refresh overlap.
C28_LoadingWhileAnyFetchInFlight == SomeFetchPending => loading

\* loading is true only while the fetch started last is in flight
LoadingOnlyWhileLastFetchInFlight == loading => fetches[Len(fetches)].status = "pending"

\* two fetches overlap, one has completed and one is still in flight
OverlappingFetchCompleted ==
  /\ ~loading
  /\ Len(fetches) = 2
  /\ fetches[1].status = "done"
  /\ fetches[2].status = "pending"

-----------------------------------------------------------------------------
(* The date-filtered series against the complete series                     *)

RawCounters == {"impressions", "clicks", "cost", "conversions", "revenue"}

\* the bucket of the complete series with the key of item, if any
CompleteBucketsOf(item) ==
  { j \in 1..Len(completeTrendData) : completeTrendData[j].period = item.period }

EqualSeriesUnderEmptyRange ==
  /\ rawData # <<>>
  /\ dateRange = NoRange
  /\ selectedFilters # NoFilters
  /\ Len(trendData) > 1
  /\ trendData = completeTrendData

-----------------------------------------------------------------------------
(* Grouping conserves the data                                              *)

SummedCounters == {"impressions", "clicks", "cost", "conversions", "revenue", "profit"}

\* the sums over the rows of a grouping are those of the summary of the whole
\* set, and every row's profit is its revenue minus its cost
ConservesData(groups) ==
  /\ \A c \in SummedCounters : SumOf(groups, c) = calculateKpiSummary(data)[c]
  /\ \A i \in 1..Len(groups) : groups[i].profit = groups[i].revenue - groups[i].cost

GroupedIntoWeeksOfTwoYears ==
  /\ called = "generateTrendData"
  /\ timeUnit = "Week"
  /\ data = GroupingData
  /\ Len(trend) = 2
  /\ trend[2].period = <<"2", "0", "2", "5", "-", "1">>

====
